---- MODULE Spec2Model ----
(***************************************************************************)
(* PyCut Pro (src/PyCut.py): the project model of VideoEditor (clip list,  *)
(* id counter, undo/redo stacks, selection, timeline widget, project file) *)
(* and the export run of VideoExportWorker.                                *)
(*                                                                         *)
(* Times (seconds in the source, Python floats) are exact integer ticks    *)
(* here: the arithmetic of the source is kept, its IEEE rounding is not.   *)
(* Python objects that are shared by reference (the clip list handed to    *)
(* the worker, the lists held by history snapshots) live in a heap of list *)
(* objects, `lists`, and are named by their list id.                       *)
(***************************************************************************)
EXTENDS Integers, Sequences, FiniteSets, TLC

\* ------------------------------------------------------------------ bounds
\* adds and splits are cut off once next_clip_id has passed MaxId
MaxId == 2
\* playhead positions offered to set_current_time: 0..MaxTime
MaxTime == 1
\* list objects the heap can hold at once
MaxLists == 3
\* export workers that can exist at once
MaxWorkers == 2
\* calls remembered by the history variable trail
TrailLen == 3

\* ------------------------------------------------------- program constants
DEFAULT_FPS == 30
IMAGE_DURATION == 5
TRANSITION_DURATION == 2
NO_SELECTION == -1

DEFAULT_PROJECT_NAME == "Untitled Project"

\* a Python tuple and a Python list of the same items are different values
PyTuple(items) == [py |-> "tuple", items |-> items]
PyList(items) == [py |-> "list", items |-> items]

TRACK_HEIGHT == 60
TIMELINE_SCALE == 10

DEFAULT_RESOLUTION == PyTuple(<<1920, 1080>>)

DefaultSettings ==
  [fps |-> DEFAULT_FPS, resolution |-> DEFAULT_RESOLUTION, background |-> "#000000"]

VARIABLES
  lists,             \* heap: list id -> the clip dictionaries of that list object
  clips,             \* VideoEditor.clips: the id of a list object
  next_clip_id,      \* VideoEditor.next_clip_id
  undo_stack,        \* VideoEditor.undo_stack: snapshots {clips: list id, next_clip_id}
  redo_stack,        \* VideoEditor.redo_stack
  selected_clip_id,  \* VideoEditor.selected_clip_id
  current_time,      \* TimelineWidget.current_time (the playhead)
  timeline,          \* TimelineWidget.clips: the timeline items
  project_name,      \* VideoEditor.project_name
  project_path,      \* VideoEditor.project_path
  project_settings,  \* VideoEditor.project_settings
  disk,              \* the project files: path -> what json.dump wrote there
  op,                \* history: the handler that ran last
  completed,         \* history: FALSE when that handler returned early or raised
  saved,             \* history: the project as it was at the last successful save
  trail,             \* history: the last add and the undo/redo calls right after it
  issued,            \* history: the ids handed out in this project, in order
  worker,            \* the VideoExportWorker objects, by worker id
  dialog             \* the worker id of the open (modal) ExportProgressDialog, 0 for none

vars ==
  <<lists, clips, next_clip_id, undo_stack, redo_stack, selected_clip_id,
    current_time, timeline, project_name, project_path, project_settings,
    disk, op, completed, saved, trail, issued, worker, dialog>>

\* what the handlers of the clip list never touch
outside_vars == <<worker, dialog, disk, saved>>

ListIds == 1..MaxLists

\* ------------------------------------------------------------ dictionaries
\* dict.get(k, d)
Get(c, k, d) == IF k \in DOMAIN c THEN c[k] ELSE d

\* c[k] = v on a dictionary
Put(c, k, v) == [x \in (DOMAIN c) \cup {k} |-> IF x = k THEN v ELSE c[x]]

\* c1 updated by the entries of c2 (several c[k] = v in a row)
Update(c1, c2) ==
  [x \in (DOMAIN c1) \cup (DOMAIN c2) |-> IF x \in DOMAIN c2 THEN c2[x] ELSE c1[x]]

\* the index of the first dictionary of s from position i on whose id is `id`,
\* 0 when there is none
RECURSIVE FirstFrom(_, _, _)
FirstFrom(s, id, i) ==
  IF i > Len(s) THEN 0
  ELSE IF s[i].id = id THEN i
  ELSE FirstFrom(s, id, i + 1)

\* for clip in self.clips: if clip['id'] == clip_id: ... break
FindClip(cl, id) == FirstFrom(cl, id, 1)

\* del s[i:]
DelFrom(s, i) == SubSeq(s, 1, i - 1)

\* del s[i]
DelAt(s, i) == [j \in 1..(Len(s) - 1) |-> IF j < i THEN s[j] ELSE s[j + 1]]

\* ------------------------------------------------------ the project, by value
\* a snapshot dictionary with the list it refers to read out of the heap
SnapValue(h, snap) == [clips |-> h[snap.clips], next_clip_id |-> snap.next_clip_id]

StackValue(h, st) == [i \in 1..Len(st) |-> SnapValue(h, st[i])]

\* the part of the project undo and redo are about
Core(h, ed, next) == [clips |-> h[ed], next_clip_id |-> next]

\* no add to follow
NoTrail == [ops |-> <<>>]

\* every handler call is logged; undo and redo extend the trail of the add they
\* follow (up to TrailLen calls), any other handler ends it
LogAs(name, ran_through) ==
  /\ op' = name
  /\ completed' = ran_through
  /\ trail' = IF name \in {"undo", "redo"} /\ trail.ops # <<>> /\ Len(trail.ops) < TrailLen
              THEN [trail EXCEPT !.ops = Append(@, name)]
              ELSE NoTrail

Log(name) == LogAs(name, TRUE)

\* ----------------------------------------------------------- TimelineWidget
\* TimelineWidget.add_clip: one TimelineClip appended to timeline.clips; pos is the
\* pos() of the item in pixels, (0, 0) for an item that was never dragged
TimelineItem(clip_id, start, duration, track, name, clip_type) ==
  [clip_id |-> clip_id, start_time |-> start, duration |-> duration,
   track |-> track, name |-> name, clip_type |-> clip_type, pos |-> <<0, 0>>]

timeline_add_clip(tl, c) ==
  Append(tl, TimelineItem(c.id, c.start, c.duration, c.track, Get(c, "name", "Clip"), c.type))

RECURSIVE FirstItem(_, _, _)
FirstItem(tl, id, i) ==
  IF i > Len(tl) THEN 0
  ELSE IF tl[i].clip_id = id THEN i
  ELSE FirstItem(tl, id, i + 1)

\* TimelineWidget.remove_clip with the item left in timeline.clips
timeline_remove_clip_leaving_item(tl, id) == tl

\* TimelineWidget.remove_clip: the first item with that clip id goes
timeline_remove_clip(tl, id) ==
  LET i == FirstItem(tl, id, 1) IN IF i = 0 THEN tl ELSE DelAt(tl, i)

\* rebuild_timeline / the rebuild in open_project: draw_timeline, then one item per clip
RECURSIVE rebuild_from(_, _, _)
rebuild_from(cl, i, tl) ==
  IF i > Len(cl) THEN tl ELSE rebuild_from(cl, i + 1, timeline_add_clip(tl, cl[i]))

rebuild_timeline(cl) == rebuild_from(cl, 1, <<>>)

\* ------------------------------------------------------------ the heap
Workers == 1..MaxWorkers

\* a worker slot that holds no VideoExportWorker
NoWorker == [pc |-> "none"]

RefsOfStack(st) == {st[i].clips : i \in 1..Len(st)}

\* a worker whose run is over reads its list no more
RefsOfWorkers(wk) == {wk[w].clips : w \in {x \in Workers : wk[x].pc \notin {"none", "done"}}}

\* the list objects a snapshot or a worker refers to
Held == RefsOfStack(undo_stack) \cup RefsOfStack(redo_stack) \cup RefsOfWorkers(worker)

\* a new list object for self.clips = [...]: the least id that names no list object
\* some snapshot or worker holds (the list self.clips drops is collected at once
\* when nothing else holds it)
NewList == CHOOSE l \in ListIds \ Held : \A m \in ListIds \ Held : l <= m

\* the heap after self.clips = <new list object with `content`>
Rebind(content) ==
  [l \in ListIds |->
     IF l = NewList THEN content
     ELSE IF l \in Held THEN lists[l]
     ELSE <<>>]

\* the modal ExportProgressDialog blocks every handler of the main window
MainWindowActive == dialog = 0

\* ------------------------------------------------------------ project files
\* the paths the file dialogs offer
Paths == {"p.pcp"}

\* no file at a path; nothing saved yet
NoFile == [file |-> "none"]

\* ------------------------------------------------------------------- Init
Init ==
  /\ lists = [l \in ListIds |-> <<>>]
  /\ clips = 1
  /\ next_clip_id = 1
  /\ undo_stack = <<>>
  /\ redo_stack = <<>>
  /\ selected_clip_id = NO_SELECTION
  /\ current_time = 0
  /\ timeline = <<>>
  /\ project_name = DEFAULT_PROJECT_NAME
  /\ project_path = "None"
  /\ project_settings = DefaultSettings
  /\ disk = [p \in Paths |-> NoFile]
  /\ op = "init"
  /\ completed = TRUE
  /\ saved = NoFile
  /\ trail = NoTrail
  /\ issued = <<>>
  /\ worker = [w \in Workers |-> NoWorker]
  /\ dialog = 0

\* ------------------------------------------------------------- add handlers
\* the tail shared by every add_*: clip_id = next_clip_id; next_clip_id += 1;
\* clips.append(clip_data); timeline.add_clip(...)
add_clip(name, clip_data) ==
  /\ MainWindowActive
  /\ lists' = [lists EXCEPT ![clips] = Append(@, clip_data)]
  /\ next_clip_id' = next_clip_id + 1
  /\ timeline' = timeline_add_clip(timeline, clip_data)
  /\ issued' = Append(issued, clip_data.id)
  /\ op' = name
  /\ completed' = TRUE
  /\ trail' = [ops |-> <<"add">>,
               before |-> Core(lists, clips, next_clip_id),
               after |-> Core(lists', clips, next_clip_id')]
  /\ UNCHANGED <<clips, undo_stack, redo_stack, selected_clip_id, current_time,
                 project_name, project_path, project_settings, outside_vars>>

\* a handler that returns early: a status bar message and nothing else
returns(name) ==
  /\ MainWindowActive
  /\ LogAs(name, FALSE)
  /\ UNCHANGED <<lists, clips, next_clip_id, undo_stack, redo_stack, selected_clip_id,
                 current_time, timeline, project_name, project_path, project_settings,
                 issued, outside_vars>>

\* a handler whose loop finds no clip with the selected id: it runs to its end and
\* changes nothing
falls_through(name) ==
  /\ MainWindowActive
  /\ LogAs(name, TRUE)
  /\ UNCHANGED <<lists, clips, next_clip_id, undo_stack, redo_stack, selected_clip_id,
                 current_time, timeline, project_name, project_path, project_settings,
                 issued, outside_vars>>

\* add_video_clip with the id taken before the capture is tested
add_video_clip_counting_first(file_path, track, probe) ==
  IF ~probe.opened
  THEN /\ MainWindowActive
       /\ LogAs("add_video_clip", FALSE)
       /\ next_clip_id' = next_clip_id + 1
       /\ UNCHANGED <<lists, clips, undo_stack, redo_stack, selected_clip_id,
                      current_time, timeline, project_name, project_path,
                      project_settings, issued, outside_vars>>
  ELSE LET duration == IF probe.fps > 0 THEN probe.frame_count \div probe.fps ELSE 0
       IN add_clip("add_video_clip",
                   [id |-> next_clip_id, type |-> "video", track |-> track,
                    start |-> current_time, duration |-> duration, name |-> file_path,
                    path |-> file_path, start_trim |-> 0])

\* cv2.VideoCapture(file_path): probe = [opened, fps, frame_count]
add_video_clip(file_path, track, probe) ==
  IF ~probe.opened
  THEN returns("add_video_clip")
  ELSE LET duration == IF probe.fps > 0 THEN probe.frame_count \div probe.fps ELSE 0
       IN add_clip("add_video_clip",
                   [id |-> next_clip_id, type |-> "video", track |-> track,
                    start |-> current_time, duration |-> duration, name |-> file_path,
                    path |-> file_path, start_trim |-> 0])

\* ffprobe: probe = [ok, duration]; float() of an unreadable answer raises
add_audio_clip(file_path, track, probe) ==
  IF ~probe.ok
  THEN returns("add_audio_clip")
  ELSE add_clip("add_audio_clip",
                [id |-> next_clip_id, type |-> "audio", track |-> track,
                 start |-> current_time, duration |-> probe.duration, name |-> file_path,
                 path |-> file_path, volume |-> 1])

add_image_clip(file_path, track) ==
  add_clip("add_image_clip",
           [id |-> next_clip_id, type |-> "image", track |-> track,
            start |-> current_time, duration |-> IMAGE_DURATION, name |-> file_path,
            path |-> file_path])

\* TextClipDialog accepted with `values` (a text of at most 20 characters, so that
\* values['text'][:20] is the text); add_text shows no status message
add_text(track, values) ==
  add_clip("add_text",
           Update([id |-> next_clip_id, type |-> "text", track |-> track,
                   start |-> current_time, name |-> "Text: " \o values.text],
                  values))

\* StickerDialog accepted with `values`
add_sticker(track, values) ==
  add_clip("add_sticker",
           Update([id |-> next_clip_id, type |-> "sticker", track |-> track,
                   start |-> current_time, name |-> "Sticker: " \o values.path],
                  values))

add_transition(track) ==
  add_clip("add_transition",
           [id |-> next_clip_id, type |-> "transition", track |-> track,
            start |-> current_time, duration |-> TRANSITION_DURATION,
            name |-> "Fade Transition"])

\* ------------------------------------------------- playhead and selection
\* TimelineWidget.set_current_time, as reached from a click on the timeline or a
\* frame shown by the player
set_current_time(time) ==
  /\ MainWindowActive
  /\ current_time' = time
  /\ Log("set_current_time")
  /\ UNCHANGED <<lists, clips, next_clip_id, undo_stack, redo_stack, selected_clip_id,
                 timeline, project_name, project_path, project_settings,
                 issued, outside_vars>>

\* round(x / (TIMELINE_SCALE / 5)) * (TIMELINE_SCALE / 5) for a whole number of
\* pixels x: round() takes a half to the even neighbour
SnapToGrid(x) ==
  LET grid == TIMELINE_SCALE \div 5
      q == x \div grid
      r == x % grid
  IN IF 2 * r < grid THEN q * grid
     ELSE IF 2 * r > grid THEN (q + 1) * grid
     ELSE IF q % 2 = 0 THEN q * grid
     ELSE (q + 1) * grid

\* TimelineClip.itemChange(ItemPositionChange, value) of the k-th item, dragged to
\* the point (x, y): the item takes the position itemChange returns
itemChange(k, x, y) ==
  /\ MainWindowActive
  /\ k \in 1..Len(timeline)
  /\ timeline' = [timeline EXCEPT
                    ![k].pos = <<SnapToGrid(x), timeline[k].track * TRACK_HEIGHT>>]
  /\ Log("itemChange")
  /\ UNCHANGED <<lists, clips, next_clip_id, undo_stack, redo_stack, selected_clip_id,
                 current_time, project_name, project_path, project_settings,
                 issued, outside_vars>>

\* the ids a double click on the timeline can emit: those of its items
ClickableIds == {timeline[i].clip_id : i \in 1..Len(timeline)}

select_clip(clip_id) ==
  /\ MainWindowActive
  /\ selected_clip_id' = clip_id
  /\ Log("select_clip")
  /\ UNCHANGED <<lists, clips, next_clip_id, undo_stack, redo_stack, current_time,
                 timeline, project_name, project_path, project_settings,
                 issued, outside_vars>>

\* ------------------------------------------------------------ effect edits
\* the body shared by the four effect handlers: the first clip with the selected id
\* gets `entries` written into its dictionary, in place
edit_selected(name, entries) ==
  IF selected_clip_id = NO_SELECTION
  THEN returns(name)
  ELSE LET i == FindClip(lists[clips], selected_clip_id) IN
       /\ MainWindowActive
       /\ lists' = IF i = 0 THEN lists
                   ELSE [lists EXCEPT ![clips][i] = Update(@, entries)]
       /\ Log(name)
       /\ UNCHANGED <<clips, next_clip_id, undo_stack, redo_stack, selected_clip_id,
                      current_time, timeline, project_name, project_path,
                      project_settings, issued, outside_vars>>

\* `values`: what the widgets of the effects panel hold when Apply is clicked
apply_effects_to_selected(values) ==
  edit_selected("apply_effects_to_selected", values)

apply_chroma_key(accepted, values) ==
  IF selected_clip_id # NO_SELECTION /\ ~accepted
  THEN returns("apply_chroma_key")
  ELSE edit_selected("apply_chroma_key", Put(values, "chroma_key", TRUE))

apply_lut(file_path) ==
  IF selected_clip_id # NO_SELECTION /\ file_path = ""
  THEN returns("apply_lut")
  ELSE edit_selected("apply_lut", [lut |-> file_path])

adjust_speed(accepted, values) ==
  IF selected_clip_id # NO_SELECTION /\ ~accepted
  THEN returns("adjust_speed")
  ELSE edit_selected("adjust_speed", values)

\* ------------------------------------------------------------------ delete
delete_selected ==
  IF selected_clip_id = NO_SELECTION
  THEN returns("delete_selected")
  ELSE LET i == FindClip(lists[clips], selected_clip_id) IN
       /\ MainWindowActive
       /\ timeline' = timeline_remove_clip(timeline, selected_clip_id)
       /\ lists' = IF i = 0 THEN lists ELSE [lists EXCEPT ![clips] = DelAt(@, i)]
       /\ selected_clip_id' = IF i = 0 THEN selected_clip_id ELSE NO_SELECTION
       /\ Log("delete_selected")
       /\ UNCHANGED <<clips, next_clip_id, undo_stack, redo_stack, current_time,
                      project_name, project_path, project_settings, issued, outside_vars>>

\* ------------------------------------------------------------------- split
\* split_new_clip with new_clip['id'] = new_clip_id left out: the copy keeps the id
split_new_clip_keeps_id(clip, new_clip_id, at_time) ==
  LET clip_time == at_time - clip.start IN
  Update(clip, [start |-> at_time,
                duration |-> clip.duration - clip_time,
                start_trim |-> Get(clip, "start_trim", 0) + clip_time])

\* split_new_clip with the source offset of the second half not advanced
split_new_clip_keeps_trim(clip, new_clip_id, at_time) ==
  LET clip_time == at_time - clip.start IN
  Update(clip, [id |-> new_clip_id, start |-> at_time,
                duration |-> clip.duration - clip_time,
                start_trim |-> Get(clip, "start_trim", 0)])

\* the second half made by split_selected_clip: clip.copy() with four entries rewritten
split_new_clip(clip, new_clip_id, at_time) ==
  LET clip_time == at_time - clip.start IN
  Update(clip, [id |-> new_clip_id, start |-> at_time,
                duration |-> clip.duration - clip_time,
                start_trim |-> Get(clip, "start_trim", 0) + clip_time])

\* split_refused with the two edges of the clip let through
split_refused_outside_only(clip, at_time) ==
  LET clip_time == at_time - clip.start IN
  clip_time < 0 \/ clip_time > clip.duration

\* the split is refused when the playhead is not strictly inside the clip
split_refused(clip, at_time) ==
  LET clip_time == at_time - clip.start IN
  clip_time <= 0 \/ clip_time >= clip.duration

\* TimelineWidget.get_clip(id).duration = d, on the first item with that id
timeline_set_duration(tl, id, d) ==
  LET k == FirstItem(tl, id, 1) IN
  IF k = 0 THEN tl ELSE [tl EXCEPT ![k].duration = d]

split_selected_clip ==
  IF selected_clip_id = NO_SELECTION
  THEN returns("split_selected_clip")
  ELSE LET i == FindClip(lists[clips], selected_clip_id) IN
       IF i = 0
       THEN falls_through("split_selected_clip")
       ELSE LET clip == lists[clips][i] IN
            IF clip.type \notin {"video", "audio"}
            THEN returns("split_selected_clip")
            ELSE IF split_refused(clip, current_time)
            THEN returns("split_selected_clip")
            ELSE LET new_clip == split_new_clip(clip, next_clip_id, current_time)
                     clip_time == current_time - clip.start
                 IN
                 /\ MainWindowActive
                 /\ next_clip_id' = next_clip_id + 1
                 /\ lists' = [lists EXCEPT
                                ![clips] = Append([@ EXCEPT ![i].duration = clip_time],
                                                  new_clip)]
                 /\ timeline' = timeline_add_clip(
                                  timeline_set_duration(timeline, clip.id, clip_time),
                                  new_clip)
                 /\ issued' = Append(issued, new_clip.id)
                 /\ Log("split_selected_clip")
                 /\ UNCHANGED <<clips, undo_stack, redo_stack, selected_clip_id,
                                current_time, project_name, project_path,
                                project_settings, outside_vars>>

\* ------------------------------------------------------------- undo / redo
\* {'clips': self.clips, 'next_clip_id': self.next_clip_id}: the list itself, not a copy
snapshot == [clips |-> clips, next_clip_id |-> next_clip_id]

\* list.pop()
Top(st) == st[Len(st)]
Pop(st) == SubSeq(st, 1, Len(st) - 1)

\* undo with the current state recorded for redo before the stack is looked at
undo_records_first ==
  /\ MainWindowActive
  /\ redo_stack' = Append(redo_stack, snapshot)
  /\ IF undo_stack = <<>>
     THEN UNCHANGED <<undo_stack, clips, next_clip_id, timeline>>
     ELSE /\ undo_stack' = Pop(undo_stack)
          /\ clips' = Top(undo_stack).clips
          /\ next_clip_id' = Top(undo_stack).next_clip_id
          /\ timeline' = rebuild_timeline(lists[Top(undo_stack).clips])
  /\ Log("undo")
  /\ UNCHANGED <<lists, selected_clip_id, current_time, project_name, project_path,
                 project_settings, issued, outside_vars>>

undo ==
  IF undo_stack = <<>>
  THEN returns("undo")
  ELSE LET state == Top(undo_stack) IN
       /\ MainWindowActive
       /\ undo_stack' = Pop(undo_stack)
       /\ redo_stack' = Append(redo_stack, snapshot)
       /\ clips' = state.clips
       /\ next_clip_id' = state.next_clip_id
       /\ timeline' = rebuild_timeline(lists[state.clips])
       /\ Log("undo")
       /\ UNCHANGED <<lists, selected_clip_id, current_time, project_name, project_path,
                      project_settings, issued, outside_vars>>

redo ==
  IF redo_stack = <<>>
  THEN returns("redo")
  ELSE LET state == Top(redo_stack) IN
       /\ MainWindowActive
       /\ redo_stack' = Pop(redo_stack)
       /\ undo_stack' = Append(undo_stack, snapshot)
       /\ clips' = state.clips
       /\ next_clip_id' = state.next_clip_id
       /\ timeline' = rebuild_timeline(lists[state.clips])
       /\ Log("redo")
       /\ UNCHANGED <<lists, selected_clip_id, current_time, project_name, project_path,
                      project_settings, issued, outside_vars>>

\* ------------------------------------------------------------- new project
new_project ==
  /\ MainWindowActive
  /\ project_name' = DEFAULT_PROJECT_NAME
  /\ project_path' = "None"
  /\ ListIds \ Held # {}
  /\ clips' = NewList
  /\ lists' = Rebind(<<>>)
  /\ next_clip_id' = 1
  /\ timeline' = <<>>
  /\ issued' = <<>>
  /\ Log("new_project")
  /\ UNCHANGED <<undo_stack, redo_stack, selected_clip_id, current_time,
                 project_settings, outside_vars>>

\* ------------------------------------------------- save, open, settings
\* what json.dump writes for a tuple and for a list alike
JsonArray(items) == [json |-> "array", items |-> items]

\* json_dump with the 'next_clip_id' entry left out of the file
json_dump_without_counter(data) ==
  [name |-> data.name,
   settings |-> [k \in DOMAIN data.settings |->
                   IF k = "resolution" THEN JsonArray(data.settings[k].items)
                   ELSE data.settings[k]],
   clips |-> data.clips]

\* json.dump(data, f): `data` is the dictionary built by do_save_project; strings,
\* numbers and booleans are written as they are, dictionaries as objects, the clip
\* list as an array of objects, the resolution pair as an array
json_dump(data) ==
  [name |-> data.name,
   settings |-> [k \in DOMAIN data.settings |->
                   IF k = "resolution" THEN JsonArray(data.settings[k].items)
                   ELSE data.settings[k]],
   clips |-> data.clips,
   next_clip_id |-> data.next_clip_id]

\* json.load(f): every array comes back as a list
json_load(text) ==
  [k \in DOMAIN text |->
     IF k = "settings"
     THEN [j \in DOMAIN text[k] |->
             IF j = "resolution" THEN PyList(text[k][j].items) ELSE text[k][j]]
     ELSE text[k]]

\* os.path.basename(file_path).replace('.pcp', '')
ProjectNameOf(file_path) == CASE file_path = "p.pcp" -> "p"

\* the dictionary do_save_project builds, with the clip list read out of the heap
SaveData(name) ==
  [name |-> name, settings |-> project_settings, clips |-> lists[clips],
   next_clip_id |-> next_clip_id]

\* do_save_project(file_path), reached with project_name = name and
\* project_path = file_path; `writable`: open(file_path, 'w') succeeds
do_save_project(handler, file_path, name, writable) ==
  /\ MainWindowActive
  /\ project_path' = file_path
  /\ project_name' = name
  /\ IF writable
     THEN /\ disk' = [disk EXCEPT ![file_path] = [file |-> "json", text |-> json_dump(SaveData(name))]]
          /\ saved' = SaveData(name)
     ELSE UNCHANGED <<disk, saved>>
  /\ LogAs(handler, writable)
  /\ UNCHANGED <<lists, clips, next_clip_id, undo_stack, redo_stack, selected_clip_id,
                 current_time, timeline, project_settings, issued, worker, dialog>>

\* `file_path`: what QFileDialog.getSaveFileName returns, "" when it is cancelled
save_project_as(file_path, writable) ==
  IF file_path = ""
  THEN returns("save_project_as")
  ELSE do_save_project("save_project_as", file_path, ProjectNameOf(file_path), writable)

save_project(file_path, writable) ==
  IF project_path # "None"
  THEN do_save_project("save_project", project_path, project_name, writable)
  ELSE IF file_path = ""
  THEN returns("save_project")
  ELSE do_save_project("save_project", file_path, ProjectNameOf(file_path), writable)

\* the ids of a clip list, in list order
IdSeq(cl) == [i \in 1..Len(cl) |-> cl[i].id]

\* the keys the rebuild loop of open_project reads by subscript
TimelineKeys == {"type", "id", "start", "duration", "track"}

\* the clips the rebuild loop of open_project gets through: those before the first
\* clip that lacks one of the keys it reads by subscript
RECURSIVE Rebuildable(_, _)
Rebuildable(cl, i) ==
  IF i > Len(cl) \/ ~(TimelineKeys \subseteq DOMAIN cl[i]) THEN SubSeq(cl, 1, i - 1)
  ELSE Rebuildable(cl, i + 1)

\* the media library loop of open_project reads clip['path'] of every video, image,
\* audio and sticker clip
MediaListed(cl) ==
  \A i \in 1..Len(cl) :
    cl[i].type \in {"video", "image", "audio", "sticker"} => "path" \in DOMAIN cl[i]

\* `file_path`: what QFileDialog.getOpenFileName returns, "" when it is cancelled;
\* open() or json.load() raises on a file that is not there or is not JSON, before
\* anything is assigned; a KeyError of the two loops is raised after the five
\* assignments, with the timeline rebuilt up to the clip that raised it
open_project(file_path) ==
  IF file_path = ""
  THEN returns("open_project")
  ELSE IF disk[file_path].file # "json"
  THEN returns("open_project")
  ELSE LET data == json_load(disk[file_path].text)
           loaded == Get(data, "clips", <<>>)
           shown == Rebuildable(loaded, 1)
       IN
       /\ MainWindowActive
       /\ project_name' = Get(data, "name", DEFAULT_PROJECT_NAME)
       /\ project_path' = file_path
       /\ project_settings' = Get(data, "settings", DefaultSettings)
       /\ ListIds \ Held # {}
       /\ clips' = NewList
       /\ lists' = Rebind(loaded)
       /\ next_clip_id' = Get(data, "next_clip_id", 1)
       /\ timeline' = rebuild_timeline(shown)
       /\ issued' = IdSeq(loaded)
       /\ LogAs("open_project", shown = loaded /\ MediaListed(loaded))
       /\ UNCHANGED <<undo_stack, redo_stack, selected_clip_id, current_time, outside_vars>>

\* OK in the project settings dialog; `resolution` is the pair of the two spin boxes
apply_project_settings(name, fps, resolution, background) ==
  /\ MainWindowActive
  /\ project_name' = name
  /\ project_settings' = [fps |-> fps, resolution |-> PyTuple(resolution),
                          background |-> background]
  /\ Log("apply_project_settings")
  /\ UNCHANGED <<lists, clips, next_clip_id, undo_stack, redo_stack, selected_clip_id,
                 current_time, timeline, project_path, issued, outside_vars>>

\* ------------------------------------------------------------- the export
\* VideoExportWorker.__init__ with the locals of export() not yet bound.
\* pc: where export() is; temp_dir: "unbound", "exists" or "removed";
\* emitted: the finished and error signals the run has emitted, in order; delivered:
\* whether the dialog has got them (and thread.quit with them); progress: the last
\* value emitted, -1 for none; invocations: the commands run and the copy, in order;
\* broke: the first loop was left by its break; given: the clips as they were when
\* the worker was made
NewWorker(clip_list, settings, output_path) ==
  [pc |-> "start", clips |-> clip_list, project_settings |-> settings,
   output_path |-> output_path, canceled |-> FALSE, temp_dir |-> "unbound",
   total_clips |-> 0, i |-> 0, intermediate_files |-> <<>>, audio_files |-> <<>>,
   progress |-> -1, emitted |-> <<>>, delivered |-> FALSE, raised |-> FALSE,
   output_written |-> FALSE, invocations |-> <<>>, broke |-> FALSE,
   given |-> lists[clip_list]]

\* ------------------------------------------------------------ the commands
\* os.path.join(temp_dir, ...): the file of that name and number in the directory
\* of the run
Artifact(file, i) == [dir |-> "temp_dir", file |-> file, i |-> i]

\* a path the project or the user names
Named(path) == [dir |-> "", file |-> path, i |-> 0]

\* os.path.join(tempfile.gettempdir(), "text_overlay.png")
temp_text_img == [dir |-> "gettempdir", file |-> "text_overlay.png", i |-> 0]

\* `if cond: filters.append(term)`
Appended(cond, term) == IF cond THEN <<term>> ELSE <<>>

\* the filters of process_video_clip and process_image_clip that are built alike,
\* in the order of their appends
shared_filters(clip, fade_in_start, end_time, lut3d) ==
  Appended(Get(clip, "fade_in", 0) > 0,
           [filter |-> "fade=t=in", st |-> fade_in_start, d |-> Get(clip, "fade_in", 0)])
  \o Appended(Get(clip, "fade_out", 0) > 0,
              [filter |-> "fade=t=out", st |-> end_time - Get(clip, "fade_out", 0),
               d |-> Get(clip, "fade_out", 0)])
  \o Appended(Get(clip, "scale", 1) # 1,
              [filter |-> "scale", iw |-> Get(clip, "scale", 1)])
  \o Appended(Get(clip, "rotation", 0) # 0,
              [filter |-> "rotate", degrees |-> Get(clip, "rotation", 0)])
  \o Appended(Get(clip, "opacity", 1) < 1,
              [filter |-> "colorchannelmixer", aa |-> Get(clip, "opacity", 1)])
  \o Appended(Get(clip, "bw", FALSE), [filter |-> "hue=s=0"])
  \o Appended(Get(clip, "blur", 0) > 0,
              [filter |-> "boxblur", radius |-> Get(clip, "blur", 0)])
  \o Appended(Get(clip, "chroma_key", FALSE),
              [filter |-> "chromakey", color |-> Get(clip, "chroma_color", "#00FF00"),
               similarity |-> Get(clip, "chroma_similarity", 0),
               blend |-> Get(clip, "chroma_blend", 0)])
  \o Appended(Get(clip, "lut", "") # "", [filter |-> lut3d, file |-> Get(clip, "lut", "")])

\* the command of process_video_clip; t is the pair duration, speed for
\* duration / speed; the chroma colour stands for the r:g:b hex_to_rgb makes of it
video_cmd(clip, output_path) ==
  LET start_time == Get(clip, "start_trim", 0)
      duration == Get(clip, "duration", 10)
      speed == Get(clip, "speed", 1)
  IN [ss |-> start_time, input |-> Named(clip.path), t |-> <<duration, speed>>,
      vf |-> shared_filters(clip, start_time, start_time + duration, "lut3d=file=")
             \o Appended(speed # 1, [filter |-> "setpts", speed |-> speed]),
      atempo |-> Appended(speed # 1, speed),
      output |-> output_path]

\* the command of process_image_clip
image_cmd(clip, output_path) ==
  LET duration == Get(clip, "duration", 5) IN
  [loop |-> 1, input |-> Named(clip.path), t |-> duration,
   vf |-> shared_filters(clip, 0, duration, "lut3d:file="),
   output |-> output_path]

\* the lavfi colour source of the text, sticker and transition renders
color_cmd(clip, settings, color, output_path) ==
  [lavfi |-> [size |-> settings.resolution.items, rate |-> settings.fps,
              color |-> color],
   t |-> Get(clip, "duration", 5), output |-> output_path]

\* the second command of process_text_clip: the text image laid over the clip file,
\* written onto the same file
text_overlay_cmd(output_path) ==
  [inputs |-> <<output_path, temp_text_img>>, filter_complex |-> "[0:v][1:v]overlay=0:0",
   output |-> output_path]

\* the second command of process_sticker_clip
sticker_overlay_cmd(clip, settings, output_path) ==
  [inputs |-> <<output_path, Named(clip.path)>>,
   filter_complex |->
     <<[filter |-> "scale", iw |-> Get(clip, "scale", 1)],
       [filter |-> "rotate", degrees |-> Get(clip, "rotation", 0)],
       [filter |-> "colorchannelmixer", aa |-> Get(clip, "opacity", 1)],
       [filter |-> "overlay", x |-> Get(clip, "x", settings.resolution.items[1] \div 2),
        y |-> Get(clip, "y", settings.resolution.items[2] \div 2)]>>,
   output |-> output_path]

\* the command of process_audio_clip
audio_cmd(clip, output_path) ==
  [ss |-> Get(clip, "start_trim", 0), input |-> Named(clip.path),
   t |-> Get(clip, "duration", 10), af |-> [filter |-> "volume", volume |-> Get(clip, "volume", 1)],
   output |-> output_path]

\* the command one stage of a render runs for the clip at list position i
render_cmd(stage, clip, i, settings) ==
  LET output_path == Artifact("clip", i) IN
  CASE stage = "video" -> video_cmd(clip, output_path)
    [] stage = "image" -> image_cmd(clip, output_path)
    [] stage = "text_base" ->
         color_cmd(clip, settings, Get(clip, "bg_color", "#00000000"), output_path)
    [] stage = "text_overlay" -> text_overlay_cmd(output_path)
    [] stage = "transition" ->
         [color_cmd(clip, settings, "black", output_path) EXCEPT
            !.t = Get(clip, "duration", 2)]
    [] stage = "sticker_bg" -> color_cmd(clip, settings, "#00000000", output_path)
    [] stage = "sticker_overlay" -> sticker_overlay_cmd(clip, settings, output_path)

\* video_list.txt, written from the files rendered at the list positions `rendered`,
\* and the concat command
concat_cmd(rendered) ==
  [concat |-> [k \in 1..Len(rendered) |-> Artifact("clip", rendered[k])],
   output |-> Artifact("concat", 0)]

\* the amix command over the files trimmed at the list positions `trimmed`: the
\* files are its inputs 0, 1, ... in that order, and pads[k] is the input that
\* f"[{j+1}:a]" names for j = k - 1
mix_cmd(trimmed) ==
  [inputs |-> [k \in 1..Len(trimmed) |-> Artifact("audio", trimmed[k])],
   filter_complex |-> [pads |-> [k \in 1..Len(trimmed) |-> (k - 1) + 1],
                       filter |-> "amix", inputs |-> Len(trimmed),
                       duration |-> "longest"],
   output |-> Artifact("mixed_audio", 0)]

\* the command that puts concat.mp4 and mixed_audio.wav together, and the copy of
\* concat.mp4, onto the output path
final_cmd(final_output, with_audio) ==
  [inputs |-> <<Artifact("concat", 0)>>
              \o Appended(with_audio, Artifact("mixed_audio", 0)),
   output |-> Named(final_output)]

\* the command the worker `self` runs at that stage for list position i, from the
\* list as it is now
CommandOf(self, stage, i) ==
  CASE stage = "audio" -> audio_cmd(lists[self.clips][i + 1], Artifact("audio", i))
    [] stage = "concat" -> concat_cmd(self.intermediate_files)
    [] stage = "mix" -> mix_cmd(self.audio_files)
    [] stage = "combine" -> final_cmd(self.output_path, TRUE)
    [] stage = "copy" -> final_cmd(self.output_path, FALSE)
    [] OTHER -> render_cmd(stage, lists[self.clips][i + 1], i, self.project_settings)

\* signal.emit(arg)
Emit(self, signal, arg) ==
  [self EXCEPT !.emitted = Append(@, [signal |-> signal, arg |-> arg])]

\* the run has emitted that signal
HasEmitted(self, signal) ==
  \E n \in 1..Len(self.emitted) : self.emitted[n].signal = signal

\* subprocess.run(cmd, check=True) of the command of `stage` for list position i
\* (shutil.copy for the stage "copy"); `ok`: it returns without raising
Invoke(self, stage, i, ok) ==
  [self EXCEPT !.invocations =
     Append(@, [stage |-> stage, i |-> i, cmd |-> CommandOf(self, stage, i), ok |-> ok])]

\* a worker slot that holds no run, or a run that is over and whose signal is handled
FreeSlot(w) ==
  /\ dialog # w
  /\ \/ worker[w].pc = "none"
     \/ worker[w].pc = "done" /\ (worker[w].emitted = <<>> \/ worker[w].delivered)

\* `file_path`: what QFileDialog.getSaveFileName returns, "" when it is cancelled;
\* with a path: ExportProgressDialog.start_export, then dialog.exec()
export_project(file_path) ==
  IF lists[clips] = <<>> \/ file_path = ""
  THEN returns("export_project")
  ELSE /\ MainWindowActive
       /\ \E w \in Workers :
            /\ FreeSlot(w)
            /\ \A v \in Workers : FreeSlot(v) => w <= v
            /\ worker' = [worker EXCEPT ![w] = NewWorker(clips, project_settings, file_path)]
            /\ dialog' = w
       /\ Log("export_project")
       /\ UNCHANGED <<lists, clips, next_clip_id, undo_stack, redo_stack, selected_clip_id,
                      current_time, timeline, project_name, project_path, project_settings,
                      issued, disk, saved>>

\* what a step of the worker thread or a slot of the dialog leaves alone
editor_vars ==
  <<lists, clips, next_clip_id, undo_stack, redo_stack, selected_clip_id, current_time,
    timeline, project_name, project_path, project_settings, issued, disk, saved,
    op, completed, trail>>

\* ExportProgressDialog.cancel_export: worker.cancel(), then reject()
cancel_export ==
  /\ dialog # 0
  /\ worker' = [worker EXCEPT ![dialog].canceled = TRUE]
  /\ dialog' = 0
  /\ UNCHANGED editor_vars

\* export() is left: its locals are gone, what it did to the files and the signals
\* it emitted stay
Returned(self) ==
  [self EXCEPT !.pc = "done", !.total_clips = 0, !.i = 0,
               !.intermediate_files = <<>>, !.audio_files = <<>>]

\* export_cleanup with finished emitted before the directory is removed, and the
\* removal raising into the except clause
export_cleanup_emitting_first(self) ==
  LET done == Returned(self) IN
  IF self.canceled THEN [done EXCEPT !.temp_dir = "removed"]
  ELSE Emit(Emit(done, "finished", self.output_path), "error", "str(e)")

\* the end of the try block: shutil.rmtree(temp_dir), finished.emit unless canceled
export_cleanup(self) ==
  LET removed == [Returned(self) EXCEPT !.temp_dir = "removed"] IN
  IF self.canceled THEN removed ELSE Emit(removed, "finished", self.output_path)

\* export_except with the directory left where it is
export_except_leaving_dir(self) ==
  [Emit(Returned(self), "error", "str(e)") EXCEPT
     !.raised = (self.temp_dir = "unbound")]

\* the except clause of export(): error.emit, then rmtree if the directory exists;
\* with temp_dir unbound (mkdtemp raised) os.path.exists(temp_dir) raises out of export()
export_except(self) ==
  [Emit(Returned(self), "error", "str(e)") EXCEPT
     !.temp_dir = IF self.temp_dir = "exists" THEN "removed" ELSE self.temp_dir,
     !.raised = (self.temp_dir = "unbound")]

\* export(), up to the first loop: tempfile.mkdtemp() (`ok`: it succeeds)
export_begin(w, ok) ==
  /\ worker[w].pc = "start"
  /\ worker' = [worker EXCEPT ![w] =
       IF ok
       THEN [@ EXCEPT !.pc = "clips", !.temp_dir = "exists",
                      !.total_clips = Len(lists[worker[w].clips]), !.i = 0]
       ELSE export_except(@)]
  /\ UNCHANGED <<dialog, editor_vars>>

\* the filters list of process_video_clip / process_image_clip is not empty
HasFilters(clip) ==
  \/ Get(clip, "fade_in", 0) > 0
  \/ Get(clip, "fade_out", 0) > 0
  \/ Get(clip, "scale", 1) # 1
  \/ Get(clip, "rotation", 0) # 0
  \/ Get(clip, "opacity", 1) < 1
  \/ Get(clip, "bw", FALSE)
  \/ Get(clip, "blur", 0) > 0
  \/ Get(clip, "chroma_key", FALSE)
  \/ Get(clip, "lut", "") # ""
  \/ clip.type = "video" /\ Get(clip, "speed", 1) # 1

\* subprocess.run raises TypeError on the None that stands for an empty filter list
\* in the command of a video or image clip; any other command is well formed and the
\* invocation may succeed or fail
RenderCanSucceed(clip) == clip.type \in {"video", "image"} => HasFilters(clip)

\* the progress value counting the clips still to come
ProgressCountingDown(i, total_clips) == ((total_clips - i) * 80) \div total_clips

\* the progress value counting the clip about to be rendered as done, out of 100
ProgressToHundred(i, total_clips) == ((i + 1) * 100) \div total_clips

\* int((i / total_clips) * 80)
ProgressAt(i, total_clips) == (i * 80) \div total_clips

\* the commands the process_*_clip method of the clip's type runs, in order
RenderStages(clip) ==
  CASE clip.type = "video" -> <<"video">>
    [] clip.type = "image" -> <<"image">>
    [] clip.type = "text" -> <<"text_base", "text_overlay">>
    [] clip.type = "transition" -> <<"transition">>
    [] clip.type = "sticker" -> <<"sticker_bg", "sticker_overlay">>
    [] OTHER -> <<>>

\* Render with every command of the render run, whether one before it failed or not
RenderEveryStage(self, stages, i, passed) ==
  [self EXCEPT !.invocations =
     @ \o [k \in 1..Len(stages) |->
            [stage |-> stages[k], i |-> i, cmd |-> CommandOf(self, stages[k], i),
             ok |-> k <= passed]]]

\* the commands of `stages` run for list position i when `passed` of them succeed:
\* the first to fail raises and the ones after it are not run
Render(self, stages, i, passed) ==
  LET ran == IF passed >= Len(stages) THEN Len(stages) ELSE passed + 1 IN
  [self EXCEPT !.invocations =
     @ \o [k \in 1..ran |->
            [stage |-> stages[k], i |-> i, cmd |-> CommandOf(self, stages[k], i),
             ok |-> k <= passed]]]

\* export_clip without the test of the flag at the top of the loop
export_clip_without_break(w, passed) ==
  LET self == worker[w]
      cl == lists[self.clips]
  IN
  /\ self.pc = "clips"
  /\ worker' = [worker EXCEPT ![w] =
       IF self.i >= Len(cl)
       THEN [@ EXCEPT !.pc = "audio", !.i = 0]
       ELSE LET clip == cl[self.i + 1]
                stages == RenderStages(clip)
                emitted == [self EXCEPT !.progress = ProgressAt(self.i, self.total_clips)]
                rendered == Render(emitted, stages, self.i,
                                   IF RenderCanSucceed(clip) THEN passed ELSE 0)
            IN IF clip.type = "audio"
               THEN [emitted EXCEPT !.i = @ + 1]
               ELSE IF passed >= Len(stages) /\ RenderCanSucceed(clip)
               THEN [rendered EXCEPT !.i = @ + 1,
                                     !.intermediate_files = Append(@, self.i)]
               ELSE export_except(rendered)]
  /\ UNCHANGED <<dialog, editor_vars>>

\* export_clip with the filters of a video clip joined in either order, as from a
\* collection without one
export_clip_in_either_order(w, passed) ==
  LET self == worker[w]
      cl == lists[self.clips]
  IN
  /\ self.pc = "clips"
  /\ worker' = [worker EXCEPT ![w] =
       IF self.i >= Len(cl)
       THEN [@ EXCEPT !.pc = "audio", !.i = 0]
       ELSE IF self.canceled
       THEN [@ EXCEPT !.pc = "audio", !.i = 0, !.broke = TRUE]
       ELSE LET clip == cl[self.i + 1]
                stages == RenderStages(clip)
                emitted == [self EXCEPT !.progress = ProgressAt(self.i, self.total_clips)]
                as_listed == Render(emitted, stages, self.i,
                                    IF RenderCanSucceed(clip) THEN passed ELSE 0)
                rendered ==
                  IF clip.type = "video" /\ passed = 2
                  THEN [as_listed EXCEPT
                          !.invocations[Len(as_listed.invocations)].cmd.vf =
                            [k \in 1..Len(@) |-> @[Len(@) + 1 - k]]]
                  ELSE as_listed
            IN IF clip.type = "audio"
               THEN [emitted EXCEPT !.i = @ + 1]
               ELSE IF passed >= Len(stages) /\ RenderCanSucceed(clip)
               THEN [rendered EXCEPT !.i = @ + 1,
                                     !.intermediate_files = Append(@, self.i)]
               ELSE export_except(rendered)]
  /\ UNCHANGED <<dialog, editor_vars>>

\* one iteration of the first loop of export(), over the list as it is now;
\* `passed`: how many commands of this clip's render succeed
export_clip(w, passed) ==
  LET self == worker[w]
      cl == lists[self.clips]
  IN
  /\ self.pc = "clips"
  /\ worker' = [worker EXCEPT ![w] =
       IF self.i >= Len(cl)
       THEN [@ EXCEPT !.pc = "audio", !.i = 0]
       ELSE IF self.canceled
       THEN [@ EXCEPT !.pc = "audio", !.i = 0, !.broke = TRUE]
       ELSE LET clip == cl[self.i + 1]
                stages == RenderStages(clip)
                emitted == [self EXCEPT !.progress = ProgressAt(self.i, self.total_clips)]
                rendered == Render(emitted, stages, self.i,
                                   IF RenderCanSucceed(clip) THEN passed ELSE 0)
            IN IF clip.type = "audio"
               THEN [emitted EXCEPT !.i = @ + 1]
               ELSE IF passed >= Len(stages) /\ RenderCanSucceed(clip)
               THEN [rendered EXCEPT !.i = @ + 1,
                                     !.intermediate_files = Append(@, self.i)]
               ELSE export_except(rendered)]
  /\ UNCHANGED <<dialog, editor_vars>>

\* export_audio with process_audio_clip storing the trim offset it read in the clip
export_audio_storing_trim(w, ok) ==
  LET self == worker[w]
      cl == lists[self.clips]
  IN
  /\ self.pc = "audio"
  /\ worker' = [worker EXCEPT ![w] =
       IF self.i >= Len(cl)
       THEN [@ EXCEPT !.pc = "concat"]
       ELSE IF cl[self.i + 1].type # "audio"
       THEN [@ EXCEPT !.i = @ + 1]
       ELSE IF ok
       THEN [Invoke(@, "audio", self.i, TRUE) EXCEPT
               !.i = @ + 1, !.audio_files = Append(@, self.i)]
       ELSE export_except(Invoke(@, "audio", self.i, FALSE))]
  /\ lists' = IF self.i < Len(cl) /\ cl[self.i + 1].type = "audio"
              THEN [lists EXCEPT ![self.clips][self.i + 1] =
                      Put(@, "start_trim", Get(@, "start_trim", 0))]
              ELSE lists
  /\ UNCHANGED <<dialog, clips, next_clip_id, undo_stack, redo_stack, selected_clip_id,
                 current_time, timeline, project_name, project_path, project_settings,
                 issued, disk, saved, op, completed, trail>>

\* one iteration of the second loop of export(); `ok`: the audio trim succeeds
export_audio(w, ok) ==
  LET self == worker[w]
      cl == lists[self.clips]
  IN
  /\ self.pc = "audio"
  /\ worker' = [worker EXCEPT ![w] =
       IF self.i >= Len(cl)
       THEN [@ EXCEPT !.pc = "concat"]
       ELSE IF cl[self.i + 1].type # "audio"
       THEN [@ EXCEPT !.i = @ + 1]
       ELSE IF ok
       THEN [Invoke(@, "audio", self.i, TRUE) EXCEPT
               !.i = @ + 1, !.audio_files = Append(@, self.i)]
       ELSE export_except(Invoke(@, "audio", self.i, FALSE))]
  /\ UNCHANGED <<dialog, editor_vars>>

\* export_concat with the concatenation copied to the output whether audio files
\* were trimmed or not
export_concat_always_copy(w, ok) ==
  /\ worker[w].pc = "concat"
  /\ worker' = [worker EXCEPT ![w] =
       IF ~ok THEN export_except(Invoke(@, "concat", 0, FALSE))
       ELSE [Invoke(@, "concat", 0, TRUE) EXCEPT !.pc = "copy"]]
  /\ UNCHANGED <<dialog, editor_vars>>

\* video_list.txt and the concat invocation
export_concat(w, ok) ==
  /\ worker[w].pc = "concat"
  /\ worker' = [worker EXCEPT ![w] =
       IF ~ok THEN export_except(Invoke(@, "concat", 0, FALSE))
       ELSE [Invoke(@, "concat", 0, TRUE) EXCEPT
               !.pc = IF worker[w].audio_files # <<>> THEN "mix" ELSE "copy"]]
  /\ UNCHANGED <<dialog, editor_vars>>

\* the amix invocation
export_mix(w, ok) ==
  /\ worker[w].pc = "mix"
  /\ worker' = [worker EXCEPT ![w] =
       IF ok THEN [Invoke(@, "mix", 0, TRUE) EXCEPT !.pc = "combine"]
       ELSE export_except(Invoke(@, "mix", 0, FALSE))]
  /\ UNCHANGED <<dialog, editor_vars>>

\* the invocation that writes the final output from concat.mp4 and mixed_audio.wav,
\* and the end of the try block after it
export_combine(w, ok) ==
  /\ worker[w].pc = "combine"
  /\ worker' = [worker EXCEPT ![w] =
       IF ok THEN export_cleanup([Invoke(@, "combine", 0, TRUE) EXCEPT !.output_written = TRUE])
       ELSE export_except(Invoke(@, "combine", 0, FALSE))]
  /\ UNCHANGED <<dialog, editor_vars>>

\* shutil.copy(concat_path, final_output), and the end of the try block after it
export_copy(w, ok) ==
  /\ worker[w].pc = "copy"
  /\ worker' = [worker EXCEPT ![w] =
       IF ok THEN export_cleanup([Invoke(@, "copy", 0, TRUE) EXCEPT !.output_written = TRUE])
       ELSE export_except(Invoke(@, "copy", 0, FALSE))]
  /\ UNCHANGED <<dialog, editor_vars>>

\* the queued finished signal reaches export_finished (accept) and thread.quit
export_finished(w) ==
  /\ worker[w].pc = "done"
  /\ HasEmitted(worker[w], "finished")
  /\ ~worker[w].delivered
  /\ worker' = [worker EXCEPT ![w].delivered = TRUE]
  /\ dialog' = IF dialog = w THEN 0 ELSE dialog
  /\ UNCHANGED editor_vars

\* the queued error signal reaches export_error (reject) and thread.quit
export_error(w) ==
  /\ worker[w].pc = "done"
  /\ HasEmitted(worker[w], "error")
  /\ ~worker[w].delivered
  /\ worker' = [worker EXCEPT ![w].delivered = TRUE]
  /\ dialog' = IF dialog = w THEN 0 ELSE dialog
  /\ UNCHANGED editor_vars

\* --------------------------------------------------------- input domains
VideoProbes ==
  {[opened |-> FALSE, fps |-> 0, frame_count |-> 0],
   [opened |-> TRUE, fps |-> 0, frame_count |-> 0],
   [opened |-> TRUE, fps |-> 1, frame_count |-> 3]}

AudioProbes == {[ok |-> FALSE, duration |-> 0], [ok |-> TRUE, duration |-> 2]}

TextValues ==
  {[text |-> "Hi", font_size |-> 48, font_file |-> "", font_color |-> "#FFFFFF",
    bg_color |-> "#00000000", position |-> "center", duration |-> 1, shadow |-> FALSE,
    shadow_color |-> "#000000", shadow_offset |-> 2, outline |-> FALSE,
    outline_color |-> "#000000", outline_width |-> 1, animation |-> "none",
    anim_duration |-> 1]}

StickerValues ==
  {[path |-> "s.png", x |-> 960, y |-> 540, scale |-> 1, rotation |-> 0,
    opacity |-> 1, duration |-> 1]}

EffectsOff ==
  [fade_in |-> 0, fade_out |-> 0, scale |-> 1, rotation |-> 0, opacity |-> 1,
   bw |-> FALSE, blur |-> 0, chroma_key |-> FALSE]

EffectsOn ==
  [fade_in |-> 1, fade_out |-> 0, scale |-> 1, rotation |-> 0, opacity |-> 1,
   bw |-> TRUE, blur |-> 0, chroma_key |-> FALSE]

PanelValues == {EffectsOff, EffectsOn}

ChromaValues ==
  {[chroma_color |-> "#00FF00", chroma_similarity |-> 1, chroma_blend |-> 0]}

SpeedValues == {[speed |-> 2]}

\* what the project settings dialog is accepted with: its defaults, or a change
SettingsValues ==
  {[fps |-> DEFAULT_FPS, resolution |-> <<1920, 1080>>, background |-> "#000000"],
   [fps |-> 24, resolution |-> <<1280, 720>>, background |-> "#000000"]}

\* --------------------------------------------------- the editor, on its own
Add ==
  \/ \E p \in VideoProbes : add_video_clip("a.mp4", 0, p)
  \/ \E p \in AudioProbes : add_audio_clip("a.wav", 5, p)
  \/ add_image_clip("a.png", 0)
  \/ \E v \in TextValues : add_text(1, v)
  \/ \E v \in StickerValues : add_sticker(0, v)
  \/ add_transition(0)

\* the id counter is cut off at MaxId: no step hands out a larger id
WithinIds == next_clip_id' <= MaxId + 1

Next ==
  \/ Add /\ WithinIds
  \/ \E t \in 0..MaxTime : set_current_time(t)
  \/ \E id \in ClickableIds : select_clip(id)
  \/ delete_selected
  \/ split_selected_clip /\ WithinIds
  \/ undo
  \/ redo
  \/ new_project

Spec == Init /\ [][Next]_vars

\* ------------------------------------------------- the editor and its files
File ==
  \/ \E f \in Paths \cup {""}, w \in BOOLEAN : save_project(f, w)
  \/ \E f \in Paths \cup {""}, w \in BOOLEAN : save_project_as(f, w)
  \/ \E f \in Paths \cup {""} : open_project(f)
  \/ \E v \in SettingsValues :
       apply_project_settings(project_name, v.fps, v.resolution, v.background)

\* no project file has been written yet
NothingSaved == \A p \in Paths : disk[p] = NoFile

\* clips are added and edited before the first save; after it the project is
\* saved again, reopened, reset, given other settings, or loses clips
PersistNext ==
  \/ /\ NothingSaved
     /\ add_video_clip("a.mp4", 0, [opened |-> TRUE, fps |-> 1, frame_count |-> 3])
     /\ WithinIds
  \/ /\ NothingSaved
     /\ add_audio_clip("a.wav", 5, [ok |-> TRUE, duration |-> 2])
     /\ WithinIds
  \/ /\ NothingSaved
     /\ \E v \in TextValues : add_text(1, v)
     /\ WithinIds
  \/ NothingSaved /\ \E a \in BOOLEAN, v \in SpeedValues : adjust_speed(a, v)
  \/ NothingSaved /\ undo
  \/ NothingSaved /\ redo
  \/ \E id \in ClickableIds : select_clip(id)
  \/ delete_selected
  \/ new_project
  \/ File

SpecPersist == Init /\ [][PersistNext]_vars

\* ------------------------------------------------ the editor and its exports
ExportStep ==
  \/ \E w \in Workers, ok \in BOOLEAN : export_begin(w, ok)
  \/ \E w \in Workers, passed \in 0..2 : export_clip(w, passed)
  \/ \E w \in Workers, ok \in BOOLEAN : export_audio(w, ok)
  \/ \E w \in Workers, ok \in BOOLEAN : export_concat(w, ok)
  \/ \E w \in Workers, ok \in BOOLEAN : export_mix(w, ok)
  \/ \E w \in Workers, ok \in BOOLEAN : export_combine(w, ok)
  \/ \E w \in Workers, ok \in BOOLEAN : export_copy(w, ok)
  \/ \E w \in Workers : export_finished(w)
  \/ \E w \in Workers : export_error(w)

\* no export has been started yet
NothingExported == \A w \in Workers : worker[w].pc = "none"

\* the clip list holds a clip of that kind
HasKind(kind) == \E i \in 1..Len(lists[clips]) : lists[clips][i].type = kind

\* no worker is between the start and the end of export(), and no signal of a run
\* that is over waits for its slot
NoRunInProgress == \A w \in Workers : FreeSlot(w)

\* a project of at most one video and one audio clip is put together before its
\* first export; from then on it is exported, one run after the other, and
\* meanwhile cut down or reset
ExportNext ==
  \/ /\ NothingExported
     /\ ~HasKind("video")
     /\ add_video_clip("a.mp4", 0, [opened |-> TRUE, fps |-> 1, frame_count |-> 3])
     /\ WithinIds
  \/ /\ NothingExported
     /\ ~HasKind("audio")
     /\ add_audio_clip("a.wav", 5, [ok |-> TRUE, duration |-> 2])
     /\ WithinIds
  \/ NothingExported /\ apply_effects_to_selected(EffectsOn)
  \/ \E id \in ClickableIds : select_clip(id)
  \/ delete_selected
  \/ new_project
  \/ NoRunInProgress /\ \E f \in {"", "out.mp4"} : export_project(f)
  \/ cancel_export
  \/ ExportStep

SpecExport == Init /\ [][ExportNext]_vars

\* ------------------------------------------------------- the export runs
\* a project of at most one video, one audio and one text clip is put together and
\* then exported once; the run is cancelled or not, and the project is cut down, or
\* gets its text clip, while the run goes on
RunNext ==
  \/ /\ NothingExported
     /\ ~HasKind("video")
     /\ add_video_clip("a.mp4", 0, [opened |-> TRUE, fps |-> 1, frame_count |-> 3])
     /\ WithinIds
  \/ /\ NothingExported
     /\ ~HasKind("audio")
     /\ add_audio_clip("a.wav", 5, [ok |-> TRUE, duration |-> 2])
     /\ WithinIds
  \/ /\ ~HasKind("text")
     /\ \E v \in TextValues : add_text(1, v)
     /\ WithinIds
  \/ NothingExported /\ apply_effects_to_selected(EffectsOn)
  \/ \E id \in ClickableIds : select_clip(id)
  \/ delete_selected
  \/ NothingExported /\ export_project("out.mp4")
  \/ cancel_export
  \/ ExportStep

SpecRun == Init /\ [][RunNext]_vars

\* the worker thread gets to run, and the event loop of the main thread hands over
\* the signals queued for it: a step of a worker or of a slot that can be taken is
\* taken in the end
SpecRunFair == SpecRun /\ WF_vars(ExportStep)

\* ------------------------------------------- the list an export is handed
\* video clips are added at any playhead position, split and deleted, and the project
\* is exported
HandOverNext ==
  \/ /\ add_video_clip("a.mp4", 0, [opened |-> TRUE, fps |-> 1, frame_count |-> 3])
     /\ WithinIds
  \/ \E t \in 0..MaxTime : set_current_time(t)
  \/ \E id \in ClickableIds : select_clip(id)
  \/ delete_selected
  \/ split_selected_clip /\ WithinIds
  \/ export_project("out.mp4")

SpecHandOver == Init /\ [][HandOverNext]_vars

\* ------------------------------------------------- exports one over another
\* no run has come to its end yet
NoRunOver == \A w \in Workers : worker[w].pc # "done"

\* a project of at most one text and one audio clip is put together and then
\* exported; each dialog is dismissed by Cancel or stays, and the project is exported
\* again for as long as no run is over
OverlapNext ==
  \/ /\ NothingExported
     /\ ~HasKind("text")
     /\ \E v \in TextValues : add_text(1, v)
     /\ WithinIds
  \/ /\ NothingExported
     /\ ~HasKind("audio")
     /\ add_audio_clip("a.wav", 5, [ok |-> TRUE, duration |-> 2])
     /\ WithinIds
  \/ NoRunOver /\ export_project("out.mp4")
  \/ cancel_export
  \/ ExportStep

SpecOverlap == Init /\ [][OverlapNext]_vars

\* ------------------------------------------------------------- the claims
ClipList == lists[clips]

IdsOf(cl) == {cl[i].id : i \in 1..Len(cl)}

NoRepeat(s) == \A i, j \in 1..Len(s) : s[i] = s[j] => i = j

AddOps ==
  {"add_video_clip", "add_audio_clip", "add_image_clip", "add_text", "add_sticker",
   "add_transition"}

\* C1: in one project no two clips of the clip list share an id, no id is handed
\* out twice, and next_clip_id is greater than every id handed out and every id
\* in the clip list.
C1_IdsUnique ==
  /\ NoRepeat([i \in 1..Len(ClipList) |-> ClipList[i].id])
  /\ NoRepeat(issued)
  /\ \A i \in 1..Len(issued) : issued[i] < next_clip_id
  /\ \A id \in IdsOf(ClipList) : id < next_clip_id

\* an id was handed out after the clip with an earlier id was deleted
C1_Witness ==
  /\ Len(issued) >= 2
  /\ Len(ClipList) = 1
  /\ ClipList[1].id = issued[Len(issued)]
  /\ op \in AddOps

\* C2: a split that goes through is a lossless partition of the selected clip.
\* Unprimed: the project before the call; primed: after it.
C2_SplitPartition ==
  [][(op' = "split_selected_clip" /\ lists' # lists) =>
       LET i == FindClip(ClipList, selected_clip_id)
           old == ClipList[i]
           t == current_time
           first == lists'[clips'][i]
           second == lists'[clips'][Len(ClipList) + 1]
       IN /\ i # 0
          /\ old.type \in {"video", "audio"}
          /\ old.start < t /\ t < old.start + old.duration
          /\ clips' = clips
          /\ Len(lists'[clips']) = Len(ClipList) + 1
          /\ \A k \in 1..Len(ClipList) : k # i => lists'[clips'][k] = ClipList[k]
          \* the original keeps everything but its duration
          /\ DOMAIN first = DOMAIN old
          /\ \A f \in DOMAIN old \ {"duration"} : first[f] = old[f]
          /\ first.duration = t - old.start
          \* the new clip
          /\ second.id = next_clip_id
          /\ second.id \notin IdsOf(ClipList)
          /\ \A n \in 1..Len(issued) : issued[n] # second.id
          /\ next_clip_id' = next_clip_id + 1
          /\ second.start = t
          /\ second.duration = (old.start + old.duration) - t
          /\ second.start_trim = Get(old, "start_trim", 0) + (t - old.start)
          /\ first.duration + second.duration = old.duration
          /\ DOMAIN second = DOMAIN old \cup {"start_trim"}
          /\ \A f \in DOMAIN old \ {"id", "start", "duration", "start_trim"} :
               second[f] = old[f]]_vars

\* a split has just produced two adjacent halves of one source
C2_Witness ==
  /\ op = "split_selected_clip"
  /\ \E i, j \in 1..Len(ClipList) :
       /\ i < j
       /\ ClipList[i].type = "video"
       /\ ClipList[j].type = "video"
       /\ ClipList[j].start = ClipList[i].start + ClipList[i].duration
       /\ ClipList[j].start_trim = ClipList[i].start_trim + ClipList[i].duration
       /\ ClipList[j].start_trim > 0

\* C3: split_selected_clip changes nothing when the playhead is not strictly
\* inside the selected clip or the clip is neither video nor audio.
SplitMustFail ==
  LET i == FindClip(ClipList, selected_clip_id) IN
  /\ selected_clip_id # NO_SELECTION
  /\ i # 0
  /\ \/ ClipList[i].type \notin {"video", "audio"}
     \/ current_time <= ClipList[i].start
     \/ current_time >= ClipList[i].start + ClipList[i].duration

C3_SplitFailureChangesNothing ==
  [][(op' = "split_selected_clip" /\ SplitMustFail) =>
       /\ lists' = lists
       /\ clips' = clips
       /\ next_clip_id' = next_clip_id
       /\ timeline' = timeline
       /\ undo_stack' = undo_stack
       /\ redo_stack' = redo_stack
       /\ selected_clip_id' = selected_clip_id]_vars

\* a split was asked for with the playhead on the end of a video clip
C3_Witness ==
  /\ op = "split_selected_clip"
  /\ SplitMustFail
  /\ LET c == ClipList[FindClip(ClipList, selected_clip_id)] IN
     /\ c.type = "video"
     /\ c.duration > 0
     /\ current_time = c.start + c.duration

\* C4: undo() right after one add gives back the clip list and next_clip_id of
\* before the add, and redo() right after that undo() gives back those of after it.
C4_UndoRedoAfterAdd ==
  /\ trail.ops = <<"add", "undo">> =>
       Core(lists, clips, next_clip_id) = trail.before
  /\ trail.ops = <<"add", "undo", "redo">> =>
       Core(lists, clips, next_clip_id) = trail.after

MutatingOps ==
  AddOps \cup {"delete_selected", "split_selected_clip", "apply_effects_to_selected",
               "apply_chroma_key", "apply_lut", "adjust_speed"}

\* C5: every mutating operation pushes the {clips, next_clip_id} state of just
\* before it onto the undo stack and leaves the redo stack empty.
C5_RecordBeforeMutation ==
  [][(op' \in MutatingOps
      /\ Core(lists', clips', next_clip_id') # Core(lists, clips, next_clip_id)) =>
       /\ Len(undo_stack') = Len(undo_stack) + 1
       /\ SnapValue(lists', Top(undo_stack')) = Core(lists, clips, next_clip_id)
       /\ redo_stack' = <<>>]_vars

\* C6: undo() on an empty undo stack and redo() on an empty redo stack change
\* neither the clips, nor next_clip_id, nor either stack.
C6_EmptyStackNoOp ==
  [][((op' = "undo" /\ undo_stack = <<>>) \/ (op' = "redo" /\ redo_stack = <<>>)) =>
       /\ lists' = lists
       /\ clips' = clips
       /\ next_clip_id' = next_clip_id
       /\ undo_stack' = undo_stack
       /\ redo_stack' = redo_stack
       /\ timeline' = timeline]_vars

\* undo() was called on an empty undo stack with clips in the project
C6_Witness ==
  /\ op = "undo"
  /\ undo_stack = <<>>
  /\ redo_stack = <<>>
  /\ Len(ClipList) > 0

\* C8 as stated: a project opened from the file it was saved to has the clips,
\* next_clip_id and settings it had at the save, and empty undo and redo stacks.
Opened == op = "open_project" /\ completed

C8_RoundTripExact ==
  Opened =>
    /\ ClipList = saved.clips
    /\ next_clip_id = saved.next_clip_id
    /\ project_settings = saved.settings
    /\ undo_stack = <<>>
    /\ redo_stack = <<>>

\* C8: a project opened from the file it was saved to has the clips (order and
\* fields) and next_clip_id it had at the save, settings with the same fps,
\* background, width and height, the resolution now a list, and empty stacks.
C8_RoundTripByValue ==
  Opened =>
    /\ ClipList = saved.clips
    /\ next_clip_id = saved.next_clip_id
    /\ DOMAIN project_settings = DOMAIN saved.settings
    /\ project_settings.fps = saved.settings.fps
    /\ project_settings.background = saved.settings.background
    /\ project_settings.resolution = PyList(saved.settings.resolution.items)
    /\ undo_stack = <<>>
    /\ redo_stack = <<>>

\* a saved project of two clips of different kinds, one with its speed changed
\* has been opened
C8_Witness ==
  /\ Opened
  /\ Len(ClipList) = 2
  /\ ClipList[1].type # ClipList[2].type
  /\ \E i \in 1..2 : "speed" \in DOMAIN ClipList[i]
  /\ next_clip_id = 3
  /\ saved.settings.fps # DEFAULT_FPS

\* C9: no step of an export run (its start, the steps of the worker, a cancel,
\* the delivery of its signals) changes the clip list, a clip field,
\* next_clip_id, the project settings or either history stack.
C9_ExportLeavesProject ==
  [][(worker' # worker \/ dialog' # dialog) =>
       /\ lists'[clips'] = lists[clips]
       /\ next_clip_id' = next_clip_id
       /\ project_settings' = project_settings
       /\ StackValue(lists', undo_stack') = StackValue(lists, undo_stack)
       /\ StackValue(lists', redo_stack') = StackValue(lists, redo_stack)]_vars

\* a run over a video and an audio clip has written its output and emitted finished
C9_Witness ==
  \E w \in Workers :
    /\ worker[w].pc = "done"
    /\ HasEmitted(worker[w], "finished")
    /\ worker[w].output_written
    /\ worker[w].clips = clips
    /\ Len(ClipList) = 2

\* C10: when a run that created its temporary directory is over, by success,
\* by the failure of any step or after a cancel, the directory is gone.
C10_WorkspaceRemoved ==
  \A w \in Workers :
    (worker[w].pc = "done" /\ worker[w].temp_dir # "unbound") =>
      worker[w].temp_dir = "removed"

\* a run failed after its first clip and is over, its directory removed
C10_Witness ==
  \E w \in Workers :
    /\ worker[w].pc = "done"
    /\ HasEmitted(worker[w], "error")
    /\ worker[w].progress > 0
    /\ worker[w].temp_dir = "removed"

\* the per-clip renders among the commands a run has started
Renders(self) ==
  SelectSeq(self.invocations,
            LAMBDA e : e.stage \in {"video", "image", "text_base", "text_overlay",
                                    "transition", "sticker_bg", "sticker_overlay"})

\* the worker is between the start and the end of export()
Running(w) == worker[w].pc \notin {"none", "done"}

\* C11: a step of a run whose cancellation flag is already set starts no render of
\* a video, image, text, sticker or transition clip.
C11_NoRenderOnceCanceled ==
  [][\A w \in Workers :
       (Running(w) /\ worker[w].canceled) =>
         Renders(worker'[w]) = Renders(worker[w])]_vars

\* a run that rendered a clip has left the loop by its break with a clip that is
\* not an audio clip still unrendered
C11_Witness ==
  \E w \in Workers :
    /\ worker[w].pc = "audio"
    /\ worker[w].broke
    /\ Renders(worker[w]) # <<>>
    /\ \E k \in 1..Len(lists[worker[w].clips]) :
         /\ lists[worker[w].clips][k].type # "audio"
         /\ \A n \in 1..Len(worker[w].invocations) :
              worker[w].invocations[n].i # k - 1

\* C12: a run that left the first loop by its break runs no audio trim, no
\* concatenation, no mix, no combine and no copy, and does not write the output path.
C12_BreakGoesToCleanup ==
  \A w \in Workers :
    (worker[w].pc # "none" /\ worker[w].broke) =>
      /\ Renders(worker[w]) = worker[w].invocations
      /\ ~worker[w].output_written

\* C13: a run whose cancellation flag was set before its last step ends without
\* having emitted finished or error.
C13_CanceledRunIsSilent ==
  [][\A w \in Workers :
       (Running(w) /\ worker[w].canceled /\ worker'[w].pc = "done") =>
         worker'[w].emitted = <<>>]_vars

LastInvocation(self) == self.invocations[Len(self.invocations)]

\* C16: a run emits at most one of finished and error, and at most once; a run that
\* has emitted finished has emitted it with its output path, after its combine or
\* copy succeeded and its directory was removed.
C16_OneTerminalSignal ==
  \A w \in Workers :
    worker[w].pc # "none" =>
      /\ Len(worker[w].emitted) <= 1
      /\ HasEmitted(worker[w], "finished") =>
           /\ worker[w].emitted[1].arg = worker[w].output_path
           /\ worker[w].invocations # <<>>
           /\ LastInvocation(worker[w]).stage \in {"combine", "copy"}
           /\ LastInvocation(worker[w]).ok
           /\ worker[w].output_written
           /\ worker[w].temp_dir = "removed"

\* a run over a project with an audio clip has emitted finished after its combine
C16_Witness ==
  \E w \in Workers :
    /\ worker[w].pc = "done"
    /\ worker[w].emitted = <<[signal |-> "finished", arg |-> "out.mp4"]>>
    /\ LastInvocation(worker[w]).stage = "combine"

\* C17: a command that failed is the last one its run started, and that run is over
\* and has emitted error, once, and nothing else.
C17_FailureEndsRun ==
  \A w \in Workers :
    worker[w].pc # "none" =>
      \A n \in 1..Len(worker[w].invocations) :
        ~worker[w].invocations[n].ok =>
          /\ n = Len(worker[w].invocations)
          /\ worker[w].pc = "done"
          /\ worker[w].emitted = <<[signal |-> "error", arg |-> "str(e)"]>>

\* a run has ended with error on the failure of the first command of a text render,
\* after a command that succeeded
C17_Witness ==
  \E w \in Workers :
    /\ worker[w].pc = "done"
    /\ Len(worker[w].invocations) >= 2
    /\ LastInvocation(worker[w]).stage = "text_base"
    /\ ~LastInvocation(worker[w]).ok
    /\ Len(worker[w].emitted) = 1
    /\ HasEmitted(worker[w], "error")

\* C18: a run that is over and has written the output path has emitted finished.
C18_OutputOnlyWithFinished ==
  \A w \in Workers :
    (worker[w].pc = "done" /\ worker[w].output_written) =>
      HasEmitted(worker[w], "finished")

\* C20: every clip of the project has a duration above 0 and a start of 0 or more.
C20_ClipsHaveExtent ==
  \A i \in 1..Len(ClipList) :
    /\ ClipList[i].duration > 0
    /\ ClipList[i].start >= 0

\* the commands of the renders of the clips of `cl` from list position i on, in order
RECURSIVE RenderPlan(_, _, _)
RenderPlan(cl, settings, i) ==
  IF i >= Len(cl) THEN <<>>
  ELSE LET stages == RenderStages(cl[i + 1]) IN
       [k \in 1..Len(stages) |->
          [stage |-> stages[k], i |-> i,
           cmd |-> render_cmd(stages[k], cl[i + 1], i, settings)]]
       \o RenderPlan(cl, settings, i + 1)

\* the list positions, from 0, of the audio clips of `cl` (`audio` true) or of its
\* other clips, in order
Positions(cl, audio) ==
  SelectSeq([k \in 1..Len(cl) |-> k - 1], LAMBDA i : (cl[i + 1].type = "audio") = audio)

\* the commands of an export of the clip list `cl`, as a function of the list, the
\* settings and the output path: the renders, the audio trims, the concat, and the
\* mix and the combine, or the copy
Plan(cl, settings, output_path) ==
  LET trimmed == Positions(cl, TRUE) IN
  RenderPlan(cl, settings, 0)
  \o [k \in 1..Len(trimmed) |->
        [stage |-> "audio", i |-> trimmed[k],
         cmd |-> audio_cmd(cl[trimmed[k] + 1], Artifact("audio", trimmed[k]))]]
  \o <<[stage |-> "concat", i |-> 0, cmd |-> concat_cmd(Positions(cl, FALSE))]>>
  \o IF trimmed # <<>>
     THEN <<[stage |-> "mix", i |-> 0, cmd |-> mix_cmd(trimmed)],
            [stage |-> "combine", i |-> 0, cmd |-> final_cmd(output_path, TRUE)]>>
     ELSE <<[stage |-> "copy", i |-> 0, cmd |-> final_cmd(output_path, FALSE)]>>

\* the commands a run has started, without their outcomes
Issued(self) ==
  [n \in 1..Len(self.invocations) |->
     [stage |-> self.invocations[n].stage, i |-> self.invocations[n].i,
      cmd |-> self.invocations[n].cmd]]

\* C19: the commands of a run, with their filters and the names of their files in
\* the directory of the run, are a function of the clip list, the project settings
\* and the output path: as long as its dialog is open, and the list therefore as the
\* run got it, a run has issued the first commands of that function's list, in
\* order, and all of them when it has emitted finished; so two runs from equal
\* lists, settings and output path issue equal lists of commands.
C19_PlanIsAFunctionOfTheInput ==
  \A w \in Workers :
    dialog = w =>
      LET plan == Plan(lists[worker[w].clips], worker[w].project_settings,
                       worker[w].output_path)
          issued_so_far == Issued(worker[w])
      IN /\ Len(issued_so_far) <= Len(plan)
         /\ issued_so_far = SubSeq(plan, 1, Len(issued_so_far))
         /\ HasEmitted(worker[w], "finished") => issued_so_far = plan

\* a run over a video clip with two filters and an audio clip has emitted finished
\* after five commands, its dialog still open
C19_Witness ==
  \E w \in Workers :
    /\ dialog = w
    /\ HasEmitted(worker[w], "finished")
    /\ Len(worker[w].invocations) = 5
    /\ \E n \in 1..5 :
         /\ worker[w].invocations[n].stage = "video"
         /\ Len(worker[w].invocations[n].cmd.vf) = 2

\* C21: a call of add_video_clip or add_audio_clip that returns on its failed probe
\* leaves the clip list, the timeline items and next_clip_id as they were.
C21_FailedProbeAddsNothing ==
  [][(op' \in {"add_video_clip", "add_audio_clip"} /\ ~completed') =>
       /\ lists'[clips'] = lists[clips]
       /\ timeline' = timeline
       /\ next_clip_id' = next_clip_id]_vars

\* an audio import has failed on its probe in a project that holds a clip
C21_Witness ==
  /\ op = "add_audio_clip"
  /\ ~completed
  /\ ClipList # <<>>

\* C22: at most one worker is between the start and the end of export() at a time.
C22_OneRunAtATime ==
  \A v, w \in Workers : (Running(v) /\ Running(w)) => v = w

\* the argument list of the command holds None: the filter string of process_video_clip
\* or process_image_clip for an empty list of filters
HoldsNone(cmd) == "vf" \in DOMAIN cmd /\ cmd.vf = <<>>

\* C23: no render command of a video or image clip holds an argument that is not a
\* string, and no such render fails for it.
C23_RenderCommandsWellFormed ==
  \A w \in Workers :
    worker[w].pc # "none" =>
      \A n \in 1..Len(worker[w].invocations) :
        worker[w].invocations[n].stage \in {"video", "image"} =>
          ~HoldsNone(worker[w].invocations[n].cmd)

\* the files the audio trims of a run have written, in order
Trimmed(self) ==
  LET trims == SelectSeq(self.invocations, LAMBDA e : e.stage = "audio" /\ e.ok) IN
  [k \in 1..Len(trims) |-> trims[k].cmd.output]

\* C24: the mix command of a run takes the files of its audio trims as its inputs,
\* its filter names each of the input positions 0 .. m-1 once and no other, and it
\* declares inputs=m and duration=longest.
C24_MixNamesItsInputs ==
  \A w \in Workers :
    worker[w].pc # "none" =>
      \A n \in 1..Len(worker[w].invocations) :
        worker[w].invocations[n].stage = "mix" =>
          LET cmd == worker[w].invocations[n].cmd
              m == Len(Trimmed(worker[w]))
              pads == cmd.filter_complex.pads
          IN /\ m >= 1
             /\ cmd.inputs = Trimmed(worker[w])
             /\ Len(pads) = m
             /\ {pads[k] : k \in 1..m} = 0..(m - 1)
             /\ cmd.filter_complex.inputs = m
             /\ cmd.filter_complex.duration = "longest"

\* C25: the clip list of a worker that export_project has just made is in the order
\* of its clips' start times.
C25_HandedListInStartOrder ==
  \A w \in Workers :
    worker[w].pc = "start" =>
      \A i, j \in 1..Len(lists[worker[w].clips]) :
        i < j => lists[worker[w].clips][i].start <= lists[worker[w].clips][j].start

\* thread.quit has been triggered for the run of worker w: its finished or its error
\* signal has reached the slots connected to it
Quit(w) == worker[w].pc = "done" /\ worker[w].delivered

\* C26: a run that is started leads to thread.quit for its thread.
C26_ThreadStopsInTheEnd ==
  \A w \in Workers : (worker[w].pc = "start") ~> Quit(w)

\* the command the stage would run for the clip `clip` at list position i
CommandFor(stage, clip, i, settings) ==
  IF stage = "audio" THEN audio_cmd(clip, Artifact("audio", i))
  ELSE render_cmd(stage, clip, i, settings)

\* the stages that process a clip of that kind
StagesOf(clip) ==
  IF clip.type = "audio" THEN {"audio"}
  ELSE {RenderStages(clip)[k] : k \in 1..Len(RenderStages(clip))}

\* C27: every render and every audio trim of a run processes a clip of the list as
\* it was when the export started, at its position and with its field values of then.
C27_RunProcessesWhatItWasGiven ==
  \A w \in Workers :
    worker[w].pc # "none" =>
      \A n \in 1..Len(worker[w].invocations) :
        LET e == worker[w].invocations[n] IN
        e.stage \notin {"concat", "mix", "combine", "copy"} =>
          /\ e.i < Len(worker[w].given)
          /\ e.stage \in StagesOf(worker[w].given[e.i + 1])
          /\ e.cmd = CommandFor(e.stage, worker[w].given[e.i + 1], e.i,
                                worker[w].project_settings)

\* the elements of a sequence
Range(s) == {s[k] : k \in 1..Len(s)}

\* the files a command reads or writes
FilesOf(cmd) ==
  {cmd.output}
  \cup (IF "input" \in DOMAIN cmd THEN {cmd.input} ELSE {})
  \cup (IF "inputs" \in DOMAIN cmd THEN Range(cmd.inputs) ELSE {})
  \cup (IF "concat" \in DOMAIN cmd THEN Range(cmd.concat) ELSE {})

\* C28: every file a command of a run reads or writes, the media of the project and
\* the output path aside, lies in the directory of that run.
C28_IntermediatesInOwnDirectory ==
  \A w \in Workers :
    worker[w].pc # "none" =>
      \A n \in 1..Len(worker[w].invocations) :
        \A f \in FilesOf(worker[w].invocations[n].cmd) :
          f.dir # "" => f.dir = "temp_dir"

\* ------------------------------------------ a project file from elsewhere
\* the clip types the if/elif chain of export() has a branch for
KnownKinds == {"video", "image", "text", "transition", "audio", "sticker"}

\* a project file that holds one clip of a type no add handler of this program
\* makes; open_project takes the 'clips' array of a file as it is
ForeignProject ==
  [name |-> "p", settings |-> DefaultSettings,
   clips |-> <<[id |-> 1, type |-> "gif", track |-> 0, start |-> 0, duration |-> 1,
                name |-> "a.gif", path |-> "a.gif"]>>,
   next_clip_id |-> 2]

\* the state after construction, with the files `files` on the disk
StartWith(files) ==
  /\ lists = [l \in ListIds |-> <<>>]
  /\ clips = 1
  /\ next_clip_id = 1
  /\ undo_stack = <<>>
  /\ redo_stack = <<>>
  /\ selected_clip_id = NO_SELECTION
  /\ current_time = 0
  /\ timeline = <<>>
  /\ project_name = DEFAULT_PROJECT_NAME
  /\ project_path = "None"
  /\ project_settings = DefaultSettings
  /\ disk = files
  /\ op = "init"
  /\ completed = TRUE
  /\ saved = NoFile
  /\ trail = NoTrail
  /\ issued = <<>>
  /\ worker = [w \in Workers |-> NoWorker]
  /\ dialog = 0

\* the state after construction, with that file on the disk
ForeignInit ==
  StartWith([p \in Paths |-> [file |-> "json", text |-> json_dump(ForeignProject)]])

\* the file is opened, a text and an audio clip are added after its clip, the
\* playhead is moved, and the project is exported once; the run is cancelled or not
ForeignNext ==
  \/ NothingExported /\ open_project("p.pcp")
  \/ /\ ~HasKind("text")
     /\ \E v \in TextValues : add_text(1, v)
     /\ WithinIds
  \/ /\ NothingExported
     /\ ~HasKind("audio")
     /\ add_audio_clip("a.wav", 5, [ok |-> TRUE, duration |-> 2])
     /\ WithinIds
  \/ \E t \in 0..MaxTime : set_current_time(t)
  \/ NothingExported /\ export_project("out.mp4")
  \/ cancel_export
  \/ ExportStep

SpecForeign == ForeignInit /\ [][ForeignNext]_vars

\* C29: when the export reaches a clip of a kind it has no branch for, the run ends
\* in error at that clip: no command of that clip or of a later clip is run, no
\* concat is attempted, the path of the clip is not put in the concat list, and a
\* run that is past the clip has emitted error
C29_UnknownKindEndsRun ==
  \A w \in Workers :
    worker[w].pc # "none" =>
      LET self == worker[w]
          cl == lists[self.clips]
      IN \A j \in 0..(Len(cl) - 1) :
           cl[j + 1].type \notin KnownKinds =>
             /\ \A n \in 1..Len(self.invocations) :
                  /\ self.invocations[n].stage # "concat"
                  /\ self.invocations[n].stage \notin {"audio", "mix", "combine", "copy"}
                       => self.invocations[n].i < j
             /\ \A k \in 1..Len(self.intermediate_files) : self.intermediate_files[k] # j
             /\ (self.pc # "start" /\ (self.pc = "clips" => self.i > j))
                  => HasEmitted(self, "error")

\* --------------------------------------------------- fades of trimmed clips
\* the effects panel with both fades set
FadesOn ==
  [fade_in |-> 1, fade_out |-> 1, scale |-> 1, rotation |-> 0, opacity |-> 1,
   bw |-> FALSE, blur |-> 0, chroma_key |-> FALSE]

\* a project of a video, an image and an audio clip is put together, its clips are
\* split at the playhead, given fades and another speed, and it is exported once
FadeNext ==
  \/ /\ NothingExported
     /\ ~HasKind("video")
     /\ add_video_clip("a.mp4", 0, [opened |-> TRUE, fps |-> 1, frame_count |-> 3])
     /\ WithinIds
  \/ /\ NothingExported
     /\ ~HasKind("image")
     /\ add_image_clip("a.png", 0)
     /\ WithinIds
  \/ /\ NothingExported
     /\ ~HasKind("audio")
     /\ add_audio_clip("a.wav", 5, [ok |-> TRUE, duration |-> 2])
     /\ WithinIds
  \/ NothingExported /\ \E t \in 0..MaxTime : set_current_time(t)
  \/ NothingExported /\ \E id \in ClickableIds : select_clip(id)
  \/ NothingExported /\ split_selected_clip /\ WithinIds
  \/ NothingExported /\ apply_effects_to_selected(FadesOn)
  \/ NothingExported /\ \E v \in SpeedValues : adjust_speed(TRUE, v)
  \/ NothingExported /\ export_project("out.mp4")
  \/ ExportStep

SpecFade == Init /\ [][FadeNext]_vars

\* the fade terms of a command, by the name of the filter
FadesOf(cmd, filter) == {k \in 1..Len(cmd.vf) : cmd.vf[k].filter = filter}

\* C30: in every render command of a video or image clip the fade-in starts at
\* time 0 of the rendered clip, and the fade-out ends at its end: fade_out_start +
\* fade_out is the rendered duration, which is duration / speed for a video clip
C30_FadesAtTheEdges ==
  \A w \in Workers :
    worker[w].pc # "none" =>
      \A n \in 1..Len(worker[w].invocations) :
        LET e == worker[w].invocations[n] IN
        /\ e.stage \in {"video", "image"} =>
             \A k \in FadesOf(e.cmd, "fade=t=in") : e.cmd.vf[k].st = 0
        /\ e.stage = "video" =>
             \A k \in FadesOf(e.cmd, "fade=t=out") :
               (e.cmd.vf[k].st + e.cmd.vf[k].d) * e.cmd.t[2] = e.cmd.t[1]
        /\ e.stage = "image" =>
             \A k \in FadesOf(e.cmd, "fade=t=out") :
               e.cmd.vf[k].st + e.cmd.vf[k].d = e.cmd.t

\* ------------------------------------------------ the order of the stages
\* the stage and the list position of each command a run has started, in order
StagesIssued(self) ==
  [n \in 1..Len(self.invocations) |->
     <<self.invocations[n].stage, self.invocations[n].i>>]

\* the render stages of the clips of `cl` from list position i on, clip by clip
RECURSIVE RenderOrder(_, _)
RenderOrder(cl, i) ==
  IF i >= Len(cl) THEN <<>>
  ELSE LET stages == RenderStages(cl[i + 1]) IN
       [k \in 1..Len(stages) |-> <<stages[k], i>>] \o RenderOrder(cl, i + 1)

\* the stages of export() for the clip list `cl`, in the order of its statements
StageOrder(cl) ==
  LET trimmed == Positions(cl, TRUE) IN
  RenderOrder(cl, 0)
  \o [k \in 1..Len(trimmed) |-> <<"audio", trimmed[k]>>]
  \o <<<<"concat", 0>>>>
  \o IF trimmed # <<>> THEN <<<<"mix", 0>>, <<"combine", 0>>>> ELSE <<<<"copy", 0>>>>

C32_ConcatListIsTheGivenClips ==
  \A w \in Workers :
    worker[w].pc # "none" =>
      \A n \in 1..Len(worker[w].invocations) :
        worker[w].invocations[n].stage = "concat" =>
          worker[w].invocations[n].cmd.concat =
            [k \in 1..Len(Positions(worker[w].given, FALSE)) |->
               Artifact("clip", Positions(worker[w].given, FALSE)[k])]

\* ----------------------------------------------------- the filter chains
\* the effects panel with every effect set
AllEffectsOn ==
  [fade_in |-> 1, fade_out |-> 1, scale |-> 2, rotation |-> 90, opacity |-> 0,
   bw |-> TRUE, blur |-> 1, chroma_key |-> TRUE]

\* a project of a video, an image and an audio clip is put together, its clips get
\* effects, a LUT and another speed, and it is exported once
ChainNext ==
  \/ /\ NothingExported
     /\ ~HasKind("video")
     /\ add_video_clip("a.mp4", 0, [opened |-> TRUE, fps |-> 1, frame_count |-> 3])
     /\ WithinIds
  \/ /\ NothingExported
     /\ ~HasKind("image")
     /\ add_image_clip("a.png", 0)
     /\ WithinIds
  \/ /\ NothingExported
     /\ ~HasKind("audio")
     /\ add_audio_clip("a.wav", 5, [ok |-> TRUE, duration |-> 2])
     /\ WithinIds
  \/ NothingExported /\ \E id \in ClickableIds : select_clip(id)
  \/ NothingExported /\ \E v \in {EffectsOn, AllEffectsOn} : apply_effects_to_selected(v)
  \/ NothingExported /\ apply_lut("l.cube")
  \/ NothingExported /\ \E v \in SpeedValues : adjust_speed(TRUE, v)
  \/ NothingExported /\ export_project("out.mp4")
  \/ ExportStep

SpecChain == Init /\ [][ChainNext]_vars

\* the place of a filter in the order of the appends of process_video_clip and
\* process_image_clip
FilterRank(term) ==
  CASE term.filter = "fade=t=in" -> 1
    [] term.filter = "fade=t=out" -> 2
    [] term.filter = "scale" -> 3
    [] term.filter = "rotate" -> 4
    [] term.filter = "colorchannelmixer" -> 5
    [] term.filter = "hue=s=0" -> 6
    [] term.filter = "boxblur" -> 7
    [] term.filter = "chromakey" -> 8
    [] term.filter \in {"lut3d=file=", "lut3d:file="} -> 9
    [] term.filter = "setpts" -> 10

\* the places of the effects that are set in the clip
EnabledEffects(clip) ==
  {r \in 1..10 :
     CASE r = 1 -> Get(clip, "fade_in", 0) > 0
       [] r = 2 -> Get(clip, "fade_out", 0) > 0
       [] r = 3 -> Get(clip, "scale", 1) # 1
       [] r = 4 -> Get(clip, "rotation", 0) # 0
       [] r = 5 -> Get(clip, "opacity", 1) < 1
       [] r = 6 -> Get(clip, "bw", FALSE)
       [] r = 7 -> Get(clip, "blur", 0) > 0
       [] r = 8 -> Get(clip, "chroma_key", FALSE)
       [] r = 9 -> Get(clip, "lut", "") # ""
       [] r = 10 -> clip.type = "video" /\ Get(clip, "speed", 1) # 1}

\* what a filter term is written from, without the text of the filter
ParametersOf(term) == [f \in (DOMAIN term) \ {"filter"} |-> term[f]]

\* the entries of a run for clips of that type
EntriesOf(self, stage) ==
  {n \in 1..Len(self.invocations) : self.invocations[n].stage = stage}

\* C33: the filter chain of every video and image render holds the effects set in
\* the clip, each once, in the order fade-in, fade-out, scale, rotation, opacity,
\* black-and-white, blur, chroma key, LUT, speed; and a filter of an image render
\* with the parameters of a filter of a video render for the same effect is the
\* same filter.
C33_ChainsAlike ==
  \A w \in Workers :
    worker[w].pc # "none" =>
      LET self == worker[w] IN
      /\ \A n \in EntriesOf(self, "video") \cup EntriesOf(self, "image") :
           LET vf == self.invocations[n].cmd.vf IN
           /\ \A k \in 1..(Len(vf) - 1) : FilterRank(vf[k]) < FilterRank(vf[k + 1])
           /\ {FilterRank(vf[k]) : k \in 1..Len(vf)}
                = EnabledEffects(self.given[self.invocations[n].i + 1])
      /\ \A n \in EntriesOf(self, "video"), m \in EntriesOf(self, "image") :
           LET vf == self.invocations[n].cmd.vf
               imf == self.invocations[m].cmd.vf
           IN \A k \in 1..Len(vf), j \in 1..Len(imf) :
                (/\ FilterRank(vf[k]) = FilterRank(imf[j])
                 /\ ParametersOf(vf[k]) = ParametersOf(imf[j]))
                  => vf[k].filter = imf[j].filter

\* C34: selected_clip_id is -1 or the id of a clip of the clip list, in every state
\* of the editor.
C34_SelectionIsAClip ==
  selected_clip_id = NO_SELECTION \/ selected_clip_id \in IdsOf(ClipList)

\* ------------------------------------------------ the timeline and the list
\* video clips are added, selected and deleted; before the first save they are split
\* at the playhead; the project is reset, saved and opened again
TimelineNext ==
  \/ /\ add_video_clip("a.mp4", 0, [opened |-> TRUE, fps |-> 1, frame_count |-> 3])
     /\ WithinIds
  \/ NothingSaved /\ \E t \in 0..MaxTime : set_current_time(t)
  \/ \E id \in ClickableIds : select_clip(id)
  \/ delete_selected
  \/ NothingSaved /\ split_selected_clip /\ WithinIds
  \/ NothingSaved /\ undo
  \/ NothingSaved /\ redo
  \/ new_project
  \/ save_project("p.pcp", TRUE)
  \/ open_project("p.pcp")

SpecTimeline == Init /\ [][TimelineNext]_vars

\* the clip ids of the items of the timeline widget, in the order of its list
TimelineIds == [k \in 1..Len(timeline) |-> timeline[k].clip_id]

\* C35: the timeline widget shows the clips of the clip list: the ids of its items
\* are the ids of the clips, and each clip has exactly one item.
C35_TimelineShowsTheList ==
  /\ {TimelineIds[k] : k \in 1..Len(timeline)} = IdsOf(ClipList)
  /\ \A i \in 1..Len(ClipList) :
       Cardinality({k \in 1..Len(timeline) : timeline[k].clip_id = ClipList[i].id}) = 1

\* a clip was split, the first half was deleted, and the project was opened from
\* its file
C35_Witness ==
  /\ op = "open_project"
  /\ completed
  /\ Len(ClipList) = 1
  /\ Get(ClipList[1], "start_trim", 0) > 0

\* the files a command reads
InputsOf(cmd) ==
  (IF "input" \in DOMAIN cmd THEN {cmd.input} ELSE {})
  \cup (IF "inputs" \in DOMAIN cmd THEN Range(cmd.inputs) ELSE {})
  \cup (IF "concat" \in DOMAIN cmd THEN Range(cmd.concat) ELSE {})

\* C36: no command of a run writes a file that the same command reads.
C36_OutputIsNoInput ==
  \A w \in Workers :
    worker[w].pc # "none" =>
      \A n \in 1..Len(worker[w].invocations) :
        worker[w].invocations[n].cmd.output \notin InputsOf(worker[w].invocations[n].cmd)

\* ------------------------------------------------- files that do not open
\* a project file whose one clip has no 'track' entry
TracklessProject ==
  [name |-> "q", settings |-> [fps |-> 24, resolution |-> PyTuple(<<1280, 720>>),
                               background |-> "#000000"],
   clips |-> <<[id |-> 1, type |-> "image", start |-> 0, duration |-> 1,
                name |-> "b.png", path |-> "b.png"]>>,
   next_clip_id |-> 2]

\* the state after construction, with a file at the path that is not JSON, or with
\* the file of that project
BrokenInit ==
  \E f \in {[file |-> "text"], [file |-> "json", text |-> json_dump(TracklessProject)]} :
    StartWith([p \in Paths |-> f])

\* a project of a video and a text clip is put together and cut down, and the file
\* is opened
BrokenNext ==
  \/ /\ ~HasKind("video")
     /\ add_video_clip("a.mp4", 0, [opened |-> TRUE, fps |-> 1, frame_count |-> 3])
     /\ WithinIds
  \/ /\ ~HasKind("text")
     /\ \E v \in TextValues : add_text(1, v)
     /\ WithinIds
  \/ \E t \in 0..MaxTime : set_current_time(t)
  \/ \E id \in ClickableIds : select_clip(id)
  \/ delete_selected
  \/ \E f \in Paths \cup {""} : open_project(f)

SpecBroken == BrokenInit /\ [][BrokenNext]_vars

\* C37: a call of open_project that fails leaves the name, the path and the
\* settings of the project, its clip list and next_clip_id as they were.
C37_FailedOpenChangesNothing ==
  [][(op' = "open_project" /\ ~completed') =>
       /\ project_name' = project_name
       /\ project_path' = project_path
       /\ project_settings' = project_settings
       /\ lists'[clips'] = lists[clips]
       /\ next_clip_id' = next_clip_id]_vars

\* C38: a run that has emitted finished has emitted the progress value 100 before,
\* as its last progress value.
C38_FinishedAtHundred ==
  \A w \in Workers :
    (worker[w].pc # "none" /\ HasEmitted(worker[w], "finished")) =>
      worker[w].progress = 100

\* --------------------------------------------------- clips that are dragged
\* the points, in pixels, an item is dragged to
DragXs == {0, 3, 10, 25}
DragYs == {0, 70}

\* a project of a video and a text clip is put together and cut down, and the items
\* of its clips are dragged over the timeline
MoveNext ==
  \/ /\ ~HasKind("video")
     /\ add_video_clip("a.mp4", 0, [opened |-> TRUE, fps |-> 1, frame_count |-> 3])
     /\ WithinIds
  \/ /\ ~HasKind("text")
     /\ \E v \in TextValues : add_text(1, v)
     /\ WithinIds
  \/ \E t \in 0..MaxTime : set_current_time(t)
  \/ \E id \in ClickableIds : select_clip(id)
  \/ delete_selected
  \/ \E k \in 1..Len(timeline), x \in DragXs, y \in DragYs : itemChange(k, x, y)

SpecMove == Init /\ [][MoveNext]_vars

\* C39: when the item of a clip has been dragged to a point, the clip of the clip
\* list with the id of the item has the x of the point, snapped to the grid of
\* TIMELINE_SCALE / 5 pixels, as its start (in seconds: TIMELINE_SCALE pixels each),
\* and the track of the point as its track.
C39_MoveRewritesTheClip ==
  [][\A k \in 1..Len(timeline), x \in DragXs, y \in DragYs :
       itemChange(k, x, y) =>
         LET i == FindClip(lists'[clips'], timeline[k].clip_id) IN
         /\ i # 0
         /\ lists'[clips'][i].start * TIMELINE_SCALE = SnapToGrid(x)
         /\ lists'[clips'][i].track = y \div TRACK_HEIGHT]_vars

\* the positions of the clips of `cl` with that id
PlacesOf(cl, id) == {i \in 1..Len(cl) : cl[i].id = id}

\* `cl` without the clip at its position i
Without(cl, i) == SubSeq(cl, 1, i - 1) \o SubSeq(cl, i + 1, Len(cl))

\* C40: a call of delete_selected with a clip selected takes the first clip with the
\* selected id out of the clip list and leaves the other clips, in their order, and
\* next_clip_id as they were; with no clip of that id the list stays as it was.
C40_DeleteRemovesTheFirstMatch ==
  [][(op' = "delete_selected" /\ completed') =>
       LET cl == lists[clips]
           places == PlacesOf(cl, selected_clip_id)
       IN
       /\ clips' = clips
       /\ next_clip_id' = next_clip_id
       /\ lists'[clips] =
            IF places = {} THEN cl
            ELSE Without(cl, CHOOSE i \in places : \A j \in places : i <= j)]_vars

\* the first of two clips has been deleted
C40_Witness ==
  /\ op = "delete_selected"
  /\ completed
  /\ selected_clip_id = NO_SELECTION
  /\ Len(ClipList) = 1
  /\ ClipList[1].id = 2

====
